---- MODULE Spec2Model ----
(***************************************************************************)
(* Copy-trading relay: master stream -> SignalCache -> translator          *)
(* (MasterPayload) -> out_queue -> copy dispatcher -> per-follower         *)
(* executor -> REST, with the position monitor and the refresh             *)
(* coordinator.  The module holds several state machines over disjoint     *)
(* groups of variables:                                                    *)
(*   SpecMaster   stream, translator, supervisor, dispatcher intake        *)
(*                (SpecTranslator: one translator under RUNNING)           *)
(*   SpecExec     fan-out tasks of the executor for one follower           *)
(*   SpecNet      NetworkManager: ping loop and session recreation         *)
(*   SpecManual   manual close: on_close, expansion, close and bulk cancel *)
(*   SpecRefresh  position monitor, refresh coordinator, PnL clean-up      *)
(*                (SpecRefreshFair: the same under a fair event loop)      *)
(*   SpecMonitor  one PosMonitorFSM and the answers to its fetches         *)
(*   SpecLife     activate, deactivate and shutdown of a follower runtime  *)
(*   SpecTasks    the asyncio tasks of the dispatcher and their shutdown   *)
(*   SpecClamp    the sizing of a follower order (_clamp_by_max_margin)    *)
(*   SpecClient   the REST client of a follower and its aiohttp session    *)
(*   SpecManualRace  SpecManual with a second on_close before the first    *)
(*                event is taken from out_queue                            *)
(*   SpecRefreshHeld  SpecRefresh from the state after an opening burst    *)
(*   SpecCache    one SignalCache, the stream pushing and the translator   *)
(*                popping                                                  *)
(*   SpecExecOrders  SpecExec over the placing and closing events only     *)
(*   SpecStream   MasterSignalStream.start, its stop by the supervisor     *)
(*   SpecClassify _handle_order on the frames of the order channel         *)
(* Python None is written NoneNum for numbers and "None" for strings; a    *)
(* missing dict key reads as None, as dict.get does.                       *)
(***************************************************************************)
EXTENDS Integers, Sequences, FiniteSets, TLC

\* ------------------------------------------------------------------ bounds
\* frames the exchange delivers to the master stream in one run
MaxFrames == 3

\* ------------------------------------------------------------- value sets
NoneNum == 0 - 1
Sides == {"LONG", "SHORT"}
RawSymbols == {"BTCUSDT"}
Symbols == {"BTC_USDT"}
\* a_config.BLACK_SYMBOLS is empty
BLACK_SYMBOLS == {}
\* master orders of the run and the orderType each carries on every frame
\* (1 = LIMIT, 5 = MARKET, other = TRIGGER)
OrderIds == {"L1", "M1", "T1"}
OrderTypeOf(oid) == IF oid = "L1" THEN 1 ELSE IF oid = "M1" THEN 5 ELSE 2
\* order side codes: 1 open long, 2 close short, 3 open short, 4 close long
OpenSideCodes == {1, 3}
CloseSideCodes == {4}
\* takeProfitPrice / stopLossPrice of a stop-order frame; 0 is what safe_float
\* makes of a missing field
TpValues == {110}
SlValues == {90}
\* the remaining fields are the same on every frame of the run
FrameRest == [vol |-> 10, price |-> 100, leverage |-> 10, openType |-> 1]
\* credential versions the UI can store; 0 stands for an empty api key
CredVersions == {0, 1, 2}

EmptyDict == [k \in {} |-> 0]
DictGet(d, k, default) == IF k \in DOMAIN d THEN d[k] ELSE default
DictSet(d, k, v) == [x \in (DOMAIN d) \cup {k} |-> IF x = k THEN v ELSE d[x]]

\* the enabled followers (copy_configs keys other than 0)
Cids == {1, 2}
\* RefreshCoordinator._task is None
NoLoop == [running |-> FALSE, pc |-> "none", monitors |-> {}, pending |-> {},
           refreshing |-> {}, scheduled |-> {}, start_ts |-> 0]

VARIABLES
    \* ---- master: configuration written by the UI (copy_configs[0])
    cmd_state,        \* [trading_enabled, stop_flag, stop_confirm]
    creds,            \* 0 = api key/secret missing, else the credentials version
    \* ---- master: supervisor (SignalFSM)
    last_hash,        \* 0 = None
    signal_stream,    \* [exists, ready, external_stop]
    stream_task,      \* "none" | "alive" | "done"
    events,           \* SignalCache._events of the current cache
    payload,          \* [exists, stop]: self.payload and its _stop flag
    payload_task,     \* "none" | "alive" | "done"
    limit_intents,    \* MasterPayload._limit_intents of self.payload
    out_queue,        \* out_queue of the payload the copy layer is attached to
    copy_loop_task,   \* "none" | "waiting" | "ready" | "done"
    pos_vars_root,    \* mc.pos_vars_root: symbol -> {spec, LONG, SHORT}
    \* ---- master: environment and history
    ordState,         \* exchange side: order id -> "new" | "working" | "done"
    framesSent,       \* frames delivered so far
    routeLog,         \* what _route did with each event of the last batch
    placedDue,        \* ids placed in this translator, no limit_filled since
    placedGlobal,     \* ids placed by the master, no limit_filled since
    ocoDue,           \* (symbol, side) -> last oco_attached not yet followed by a fill
    dispatched        \* order id -> buy/limit MasterEvents dequeued by signal_loop

masterVars == <<cmd_state, creds, last_hash, signal_stream, stream_task, events,
                payload, payload_task, limit_intents, out_queue, copy_loop_task,
                pos_vars_root, ordState, framesSent, routeLog, placedDue,
                placedGlobal, ocoDue, dispatched>>

VARIABLES
    \* ---- executor of one follower (one runtime rt, one symbol)
    copy_cfg,         \* copy_configs[cid]
    session_open,     \* connector.session is there and not closed
    emitted,          \* MasterEvents handed to the fan-out, in emission order;
                      \* task t runs handle_copy_event for emitted[t]
    hpc,              \* task -> "poll" | "wait_lock" | "granted" | "delay" | "rest"
                      \*         | "done" | "dropped"
    pollQ,            \* tasks sleeping in wait_for_session, in wake-up order
    lock_locked,      \* side -> side_root["_lock"] is held
    lock_waiters,     \* side -> tasks queued on the lock, first come first
    intents,          \* task -> the CopyOrderIntent it built
    orders_vars,      \* side -> [limit, trigger]: master order id -> record
    copy_pvs,         \* rt["position_vars"][symbol]: side -> PV
    csLog,            \* side -> tasks in the order they entered the critical section
    restLog,          \* REST calls issued, in order
    log_events,       \* mc.log_events entries of the executor
    ovLog,            \* cancels processed and records written in orders_vars, in order
    last_error,       \* rt["last_error"]
    last_error_ts     \* rt["last_error_ts"]

execVars == <<copy_cfg, session_open, emitted, hpc, pollQ, lock_locked, lock_waiters,
              intents, orders_vars, copy_pvs, csLog, restLog, log_events, ovLog,
              last_error, last_error_ts>>

VARIABLES
    \* ---- RefreshCoordinator, PosMonitorFSM and PreparePnlReport over the followers
    rt_pvs,           \* cid -> rt["position_vars"][symbol]: side -> PV
    clock,            \* now(), in ticks
    prev_hash,        \* RefreshCoordinator._prev_hash: cid -> hash
    bursts,           \* the _execute_signal tasks, in the order they were started
    loop,             \* RefreshCoordinator._task and the locals of its _run;
                      \* scheduled: the ids on_stable was scheduled for by this _run
    stable_tasks      \* the on_stable tasks that have not returned yet

refreshVars == <<rt_pvs, clock, prev_hash, bursts, loop, stable_tasks>>

VARIABLES
    \* ---- one NetworkManager and the tasks calling notify_session_failure
    session,          \* self.session: "open" or "none"
    _recreating,      \* self._recreating
    recreate_lock,    \* self._recreate_lock: [locked, waiters]
    notify_calls,     \* the calls of notify_session_failure, in the order they
                      \* were made: [pc, overlapped, cycled]
    _ping_failures,   \* self._ping_failures
    _degraded,        \* self._degraded
    ping_loop         \* the ping task: [pc, call], call being its call of
                      \* notify_session_failure (0: none)

netVars == <<session, _recreating, recreate_lock, notify_calls, _ping_failures,
             _degraded, ping_loop>>

VARIABLES
    \* ---- manual close: CmdDestrib.on_close, the expander, the executor
    copy_runtime_states,  \* mc.copy_runtime_states: cid -> the READY runtime
                          \* [position_vars, orders_vars] of the symbol
    cmd_ids,          \* mc.cmd_ids
    manual_queue,     \* the manual MasterEvents on out_queue: [sig_type, ids],
                      \* ids being the argument of the on_close that put it
    sub_tasks,        \* the _execute_signal tasks of the expanded events:
                      \* [mev, pc, intent, res]
    manual_rest       \* the REST calls these tasks made

manualVars == <<copy_runtime_states, cmd_ids, manual_queue, sub_tasks, manual_rest>>

VARIABLES
    \* ---- one PosMonitorFSM and the answers of the exchange to its fetches
    monitor_pvs,      \* self.position_vars[symbol]: side -> PV
    refresh_calls,    \* the calls of refresh that have returned
    last_response     \* what get_open_positions answered to the last of them:
                      \* "none" (no call yet), "data", "null", "error"

monitorVars == <<monitor_pvs, refresh_calls, last_response>>

VARIABLES
    \* ---- the lifecycle of one follower runtime (CopyState, CoreApp.shutdown)
    init_state,       \* init_state of mc.copy_runtime_states[cid]; "none": no entry
    _init_locks,      \* self._init_locks[cid]: [holder, waiters], holder 0: free
    lifecycle_tasks,  \* the tasks running activate_copy, deactivate_copy or
                      \* CoreApp.shutdown: [kind, pc, ready_before], ready_before
                      \* being the tasks that were ready when shutdown began
    _stop_flag        \* CoreApp._stop_flag

lifeVars == <<init_state, _init_locks, lifecycle_tasks, _stop_flag>>

\* ---- the asyncio tasks the copy side creates (CopyDestrib, RefreshCoordinator)
VARIABLES
    spawned,
    background_tasks,
    refresh_task,
    app_stopped

taskVars == <<spawned, background_tasks, refresh_task, app_stopped>>

\* ---- the sizing clamp of CopyOrderIntentFactory, called on its own
VARIABLES
    clamp_args,
    clamp_calls

clampVars == <<clamp_args, clamp_calls>>

\* ---- one follower's NetworkManager session and the session its MexcClient holds
VARIABLES
    connector_session,
    sessions_closed,
    mc_client_session,
    rest_calls

clientVars == <<connector_session, sessions_closed, mc_client_session, rest_calls>>

\* ---- SignalCache: one cache, its pusher and its single consumer
VARIABLES
    sig_cache,
    consumer_pc,
    consumer_stop,
    pushed,
    pop_batches

cacheVars == <<sig_cache, consumer_pc, consumer_stop, pushed, pop_batches>>

\* ---- MasterSignalStream: one stream object and the task running start()
VARIABLES
    ms,               \* the fields of the stream object: [session, websocket, ready,
                      \* is_connected, external_stop, ping_task]
    start_pc,         \* the await the task of start() is suspended at, or how it ended
    disc_caller,      \* the caller _disconnect returns to: "login" | "messages"
    net_res,          \* [sessions, sockets]: client sessions and websockets opened
                      \* by the stream and not closed
    stream_hist,      \* [connects, pushes, stopped, pushes_at_stop]
    app_stop          \* what stop_flag() answers

streamVars == <<ms, start_pc, disc_caller, net_res, stream_hist, app_stop>>

\* ---- MasterSignalStream._handle_order on one frame
VARIABLES
    black_cfg,        \* a_config.BLACK_SYMBOLS as configured when the stream is made
    order_frame,      \* the data of the last push.personal.order frame (<<>> or one)
    order_pushed      \* the events _handle_order pushed for it

classifyVars == <<black_cfg, order_frame, order_pushed>>

nonMasterVars == <<execVars, refreshVars, netVars, manualVars, monitorVars, lifeVars, taskVars, clampVars, clientVars, cacheVars, streamVars, classifyVars>>
nonExecVars == <<masterVars, refreshVars, netVars, manualVars, monitorVars, lifeVars, taskVars, clampVars, clientVars, cacheVars, streamVars, classifyVars>>
nonRefreshVars == <<masterVars, execVars, netVars, manualVars, monitorVars, lifeVars, taskVars, clampVars, clientVars, cacheVars, streamVars, classifyVars>>
nonNetVars == <<masterVars, execVars, refreshVars, manualVars, monitorVars, lifeVars, taskVars, clampVars, clientVars, cacheVars, streamVars, classifyVars>>
nonManualVars == <<masterVars, execVars, refreshVars, netVars, monitorVars, lifeVars, taskVars, clampVars, clientVars, cacheVars, streamVars, classifyVars>>
nonMonitorVars == <<masterVars, execVars, refreshVars, netVars, manualVars, lifeVars, taskVars, clampVars, clientVars, cacheVars, streamVars, classifyVars>>
nonLifeVars == <<masterVars, execVars, refreshVars, netVars, manualVars, monitorVars, taskVars, clampVars, clientVars, cacheVars, streamVars, classifyVars>>
nonTaskVars == <<masterVars, execVars, refreshVars, netVars, manualVars, monitorVars, lifeVars, clampVars, clientVars, cacheVars, streamVars, classifyVars>>
nonClampVars == <<masterVars, execVars, refreshVars, netVars, manualVars, monitorVars, lifeVars, taskVars, clientVars, cacheVars, streamVars, classifyVars>>
nonClientVars == <<masterVars, execVars, refreshVars, netVars, manualVars, monitorVars, lifeVars, taskVars, clampVars, cacheVars, streamVars, classifyVars>>
nonCacheVars == <<masterVars, execVars, refreshVars, netVars, manualVars, monitorVars, lifeVars, taskVars, clampVars, clientVars, streamVars, classifyVars>>
nonStreamVars == <<masterVars, execVars, refreshVars, netVars, manualVars, monitorVars, lifeVars, taskVars, clampVars, clientVars, cacheVars, classifyVars>>
nonClassifyVars == <<masterVars, execVars, refreshVars, netVars, manualVars, monitorVars, lifeVars, taskVars, clampVars, clientVars, cacheVars, streamVars>>

vars == <<masterVars, execVars, refreshVars, netVars, manualVars, monitorVars, lifeVars, taskVars, clampVars, clientVars, cacheVars, streamVars, classifyVars>>

\* =====================================================================
\* MASTER.state_ / MASTER.stream_ : classification of raw frames
\* =====================================================================
normalize_symbol(raw_symbol) ==
    IF raw_symbol \in {"BTCUSDT", "BTC_USDT", "btc-usdt"} THEN "BTC_USDT"
    ELSE IF raw_symbol \in {"ETHUSDT", "ETH_USDT", "eth_usdt"} THEN "ETH_USDT"
    ELSE ""

side_from_order_side(code) ==
    IF code \in {1, 4} THEN "LONG" ELSE IF code \in {2, 3} THEN "SHORT" ELSE "None"

\* str.upper on the symbols of the model
upper(x) ==
    IF x \in {"btc_usdt", "btc-usdt"} THEN (IF x = "btc_usdt" THEN "BTC_USDT" ELSE "BTC-USDT")
    ELSE IF x = "eth_usdt" THEN "ETH_USDT"
    ELSE x

\* MasterSignalStream.black_symbols as the constructor builds it from the
\* configured list
black_symbols(configured) == {upper(x) : x \in {y \in configured : y \notin {"", " "}}}

\* MasterSignalStream._emit: the events pushed to the SignalCache (none or one)
StreamEmit(black, symbol, pos_side, etype, raw) ==
    IF symbol # "" /\ upper(symbol) \in black
    THEN <<>>
    ELSE <<[symbol |-> symbol, pos_side |-> pos_side, event_type |-> etype, raw |-> raw]>>

\* _handle_order taking a fill of a market order (orderType 5) for the fill
\* of a trigger order
_handle_order_market_as_trigger(black, data) ==
    LET symbol == normalize_symbol(data.symbol)
        side == side_from_order_side(data.side)
    IN  IF data.state \in {4, 5}
        THEN StreamEmit(black, symbol, side,
                        IF data.state = 4 THEN "order_cancelled" ELSE "order_invalid", data)
        ELSE IF data.state = 3
        THEN IF data.orderType = 1 THEN StreamEmit(black, symbol, side, "limit_filled", data)
             ELSE StreamEmit(black, symbol, side, "trigger_filled", data)
        ELSE IF data.orderType = 1 /\ data.state = 2
        THEN StreamEmit(black, symbol, side, "limit_placed", data)
        ELSE <<>>

_handle_order(black, data) ==
    LET symbol == normalize_symbol(data.symbol)
        side == side_from_order_side(data.side)
    IN  IF data.state \in {4, 5}
        THEN StreamEmit(black, symbol, side,
                        IF data.state = 4 THEN "order_cancelled" ELSE "order_invalid", data)
        ELSE IF data.state = 3
        THEN IF data.orderType = 1 THEN StreamEmit(black, symbol, side, "limit_filled", data)
             ELSE IF data.orderType = 5 THEN StreamEmit(black, symbol, side, "market_filled", data)
             ELSE StreamEmit(black, symbol, side, "trigger_filled", data)
        ELSE IF data.orderType = 1 /\ data.state = 2
        THEN StreamEmit(black, symbol, side, "limit_placed", data)
        ELSE <<>>

_handle_stop_order(black, data) ==
    StreamEmit(black, normalize_symbol(data.symbol), side_from_order_side(data.side),
               "oco_attached", [tp |-> data.takeProfitPrice, sl |-> data.stopLossPrice])

\* =====================================================================
\* MASTER.payload_ : the translator
\* =====================================================================
InstrumentSpec(symbol) ==
    [contract_precision |-> 1, price_precision |-> 2, contract_size |-> 1,
     vol_unit |-> 1, max_leverage |-> 100]

pos_vars_root_template == [_attached_tp |-> NoneNum, _attached_sl |-> NoneNum]

\* PosVarSetup.set_pos_defaults as _ensure_pv calls it (instruments loaded)
set_pos_defaults(position_vars, symbol, pos_side) ==
    LET e0 == DictGet(position_vars, symbol, EmptyDict)
        e1 == IF "spec" \in DOMAIN e0 THEN e0 ELSE DictSet(e0, "spec", InstrumentSpec(symbol))
        e2 == IF pos_side \in DOMAIN e1 THEN e1 ELSE DictSet(e1, pos_side, pos_vars_root_template)
    IN  DictSet(position_vars, symbol, e2)

_base_payload(raw) ==
    [order_id |-> raw.orderId, qty |-> raw.vol, price |-> raw.price,
     leverage |-> raw.leverage, open_type |-> raw.openType,
     reduce_only |-> raw.reduceOnly, tp_price |-> NoneNum, sl_price |-> NoneNum]

CancelPayload(oid) ==
    [order_id |-> oid, qty |-> NoneNum, price |-> NoneNum, leverage |-> NoneNum,
     open_type |-> NoneNum, reduce_only |-> FALSE, tp_price |-> NoneNum,
     sl_price |-> NoneNum]

\* MasterPayload._emit: one MasterEvent appended to _pending
MkMasterEvent(event, method, symbol, pos_side, closed, pl) ==
    [event |-> event, method |-> method, symbol |-> symbol, pos_side |-> pos_side,
     closed |-> closed, payload |-> pl, sig_type |-> "copy"]

\* the side is kept
KeepSide(pos_side) == pos_side

\* the flip of _route: {"LONG": "SHORT", "SHORT": "LONG"}[pos_side]
FlipSide(pos_side) == IF pos_side = "LONG" THEN "SHORT" ELSE "LONG"

\* an injection that leaves _attached_tp / _attached_sl in the PV
_inject_oco_keep(root, pl, symbol, pos_side) ==
    LET entry == DictGet(root, symbol, EmptyDict)
    IN  IF pos_side \notin DOMAIN entry
        THEN [payload |-> pl, root |-> root]
        ELSE [payload |-> [pl EXCEPT !.tp_price = entry[pos_side]._attached_tp,
                                     !.sl_price = entry[pos_side]._attached_sl],
              root |-> root]

\* MasterPayload._inject_oco_from_intent: the payload and the PV root afterwards
_inject_oco_from_intent(root, pl, symbol, pos_side) ==
    LET entry == DictGet(root, symbol, EmptyDict)
    IN  IF pos_side \notin DOMAIN entry
        THEN [payload |-> pl, root |-> root]
        ELSE LET pv == entry[pos_side]
                 pl1 == IF pv._attached_tp # NoneNum
                        THEN [pl EXCEPT !.tp_price = pv._attached_tp] ELSE pl
                 pl2 == IF pv._attached_sl # NoneNum
                        THEN [pl1 EXCEPT !.sl_price = pv._attached_sl] ELSE pl1
             IN  [payload |-> pl2,
                  root |-> DictSet(root, symbol,
                                   DictSet(entry, pos_side, pos_vars_root_template))]

\* the market_filled branch of _route
RouteMarketFilled(st, ev) ==
    LET is_close == ev.raw.reduceOnly
        emit_side == IF is_close THEN FlipSide(ev.pos_side) ELSE ev.pos_side
        inj == _inject_oco_from_intent(st.root, _base_payload(ev.raw), ev.symbol, emit_side)
    IN  [st EXCEPT !.root = inj.root,
                   !.pending = Append(@, MkMasterEvent(IF is_close THEN "sell" ELSE "buy",
                                      "market", ev.symbol, emit_side, is_close, inj.payload))]

\* the limit_filled branch of _route without the self-echo check
RouteLimitFilledAlways(st, ev) ==
    LET inj == _inject_oco_from_intent(st.root, _base_payload(ev.raw), ev.symbol, ev.pos_side)
    IN  [st EXCEPT !.root = inj.root,
                   !.pending = Append(@, MkMasterEvent("buy", "limit", ev.symbol,
                                                       ev.pos_side, FALSE, inj.payload))]

\* the limit_filled branch of _route
RouteLimitFilled(st, ev) ==
    IF ev.raw.orderId \in st.intents
    THEN [st EXCEPT !.intents = @ \ {ev.raw.orderId}]
    ELSE LET inj == _inject_oco_from_intent(st.root, _base_payload(ev.raw), ev.symbol,
                                            ev.pos_side)
         IN  [st EXCEPT !.root = inj.root,
                        !.pending = Append(@, MkMasterEvent("buy", "limit", ev.symbol,
                                                            ev.pos_side, FALSE, inj.payload))]

\* the limit_placed branch of _route
RouteLimitPlaced(st, ev) ==
    [st EXCEPT !.intents = IF ev.raw.orderId # "" THEN @ \cup {ev.raw.orderId} ELSE @,
               !.pending = Append(@, MkMasterEvent("buy", "limit", ev.symbol, ev.pos_side,
                                                   FALSE, _base_payload(ev.raw)))]

\* the trigger_filled branch of _route
RouteTriggerFilled(st, ev) ==
    LET reduce_only == ev.raw.reduceOnly
        is_sell == ev.raw.side \notin {1, 3}
        emit_side == IF reduce_only THEN FlipSide(ev.pos_side) ELSE ev.pos_side
        inj == _inject_oco_from_intent(st.root, _base_payload(ev.raw), ev.symbol, emit_side)
    IN  [st EXCEPT !.root = inj.root,
                   !.pending = Append(@, MkMasterEvent(IF is_sell THEN "sell" ELSE "buy",
                                      "trigger", ev.symbol, emit_side, reduce_only,
                                      inj.payload))]

\* the oco_attached branch of _route (safe_float never yields None)
RouteOco(st, ev) ==
    LET r1 == set_pos_defaults(st.root, ev.symbol, ev.pos_side)
        pv == r1[ev.symbol][ev.pos_side]
        pv1 == [pv EXCEPT !._attached_tp = ev.raw.tp, !._attached_sl = ev.raw.sl]
    IN  [st EXCEPT !.root = DictSet(r1, ev.symbol, DictSet(r1[ev.symbol], ev.pos_side, pv1))]

\* the cancel branch of _route
RouteCancel(st, ev) ==
    [st EXCEPT !.intents = IF ev.raw.orderId # "" THEN @ \ {ev.raw.orderId} ELSE @,
               !.pending = Append(@, MkMasterEvent("canceled", "limit", ev.symbol,
                                      ev.pos_side, FALSE, CancelPayload(ev.raw.orderId)))]

\* MasterPayload._route on the translator state st = [intents, root, pending]
_route(st, ev) ==
    IF ev.symbol = "" \/ ev.pos_side = "None" THEN st
    ELSE IF ev.event_type = "oco_attached" THEN RouteOco(st, ev)
    ELSE IF ev.event_type = "market_filled" THEN RouteMarketFilled(st, ev)
    ELSE IF ev.event_type = "limit_filled" THEN RouteLimitFilled(st, ev)
    ELSE IF ev.event_type = "limit_placed" THEN RouteLimitPlaced(st, ev)
    ELSE IF ev.event_type = "trigger_filled" THEN RouteTriggerFilled(st, ev)
    ELSE IF ev.event_type \in {"order_cancelled", "order_invalid"} THEN RouteCancel(st, ev)
    ELSE st

\* the translator state after routing a batch, with the history of each step:
\* acc = [st, log, placedDue, placedGlobal, ocoDue]
NoOco == [tp |-> NoneNum, sl |-> NoneNum]
FillTypes == {"market_filled", "limit_filled", "trigger_filled"}
Processed(ev) == ev.symbol # "" /\ ev.pos_side # "None"

RouteStep(acc, ev) ==
    LET st2 == _route(acc.st, ev)
        key == <<ev.symbol, ev.pos_side>>
        oid == IF ev.event_type = "oco_attached" THEN "" ELSE ev.raw.orderId
        isPlaced == Processed(ev) /\ ev.event_type = "limit_placed" /\ oid # ""
        isLFill == Processed(ev) /\ ev.event_type = "limit_filled"
        isFill == Processed(ev) /\ ev.event_type \in FillTypes
        isOco == Processed(ev) /\ ev.event_type = "oco_attached"
        entry == [ev |-> ev,
                  out |-> SubSeq(st2.pending, Len(acc.st.pending) + 1, Len(st2.pending)),
                  intentsPre |-> acc.st.intents,
                  intentsPost |-> st2.intents,
                  placedPre |-> acc.placedDue,
                  globalPre |-> acc.placedGlobal,
                  ocoPre |-> IF isFill THEN acc.ocoDue[key] ELSE NoOco,
                  pvPost |-> IF Processed(ev) /\ ev.symbol \in DOMAIN st2.root
                                /\ ev.pos_side \in DOMAIN st2.root[ev.symbol]
                             THEN st2.root[ev.symbol][ev.pos_side]
                             ELSE pos_vars_root_template]
    IN  [st |-> st2,
         log |-> Append(acc.log, entry),
         placedDue |-> IF isPlaced THEN acc.placedDue \cup {oid}
                       ELSE IF isLFill THEN acc.placedDue \ {oid} ELSE acc.placedDue,
         placedGlobal |-> IF isPlaced THEN acc.placedGlobal \cup {oid}
                          ELSE IF isLFill THEN acc.placedGlobal \ {oid}
                          ELSE acc.placedGlobal,
         ocoDue |-> IF isOco THEN [acc.ocoDue EXCEPT ![key] = ev.raw]
                    ELSE IF isFill THEN [acc.ocoDue EXCEPT ![key] = NoOco]
                    ELSE acc.ocoDue]

RECURSIVE RouteAll(_, _)
RouteAll(evs, acc) ==
    IF evs = <<>> THEN acc ELSE RouteAll(Tail(evs), RouteStep(acc, Head(evs)))

\* =====================================================================
\* SpecMaster : the exchange, the stream, the translator, the supervisor
\* =====================================================================
SideChoices(oid) == IF oid = "L1" THEN {1} ELSE IF oid = "M1" THEN {1, 4} ELSE {3, 4}

OrderFrame(oid, side, state) ==
    [channel |-> "push.personal.order",
     data |-> [symbol |-> "BTCUSDT", orderId |-> oid, side |-> side, state |-> state,
               orderType |-> OrderTypeOf(oid), reduceOnly |-> side \in CloseSideCodes,
               vol |-> FrameRest.vol, price |-> FrameRest.price,
               leverage |-> FrameRest.leverage, openType |-> FrameRest.openType]]

StopOrderFrame(side, tp, sl) ==
    [channel |-> "push.personal.stop.order",
     data |-> [symbol |-> "BTCUSDT", side |-> side, takeProfitPrice |-> tp,
               stopLossPrice |-> sl]]

\* the order states the exchange can report next for an order
NextOrderStates(oid, cur) ==
    IF OrderTypeOf(oid) = 1
    THEN (IF cur = "new" THEN {2, 3, 5} ELSE IF cur = "working" THEN {3, 4} ELSE {})
    ELSE (IF cur = "new" THEN {3} ELSE {})

\* MasterSignalStream._handle_messages: the events one frame pushes
HandleMessage(msg) ==
    IF msg.channel = "push.personal.order"
    THEN _handle_order(black_symbols(BLACK_SYMBOLS), msg.data)
    ELSE IF msg.channel = "push.personal.stop.order"
    THEN _handle_stop_order(black_symbols(BLACK_SYMBOLS), msg.data)
    ELSE <<>>

StreamLive == signal_stream.exists /\ signal_stream.ready /\ stream_task = "alive"

\* an order frame arrives on the live stream and is pushed to the SignalCache
StreamOrderFrame(ids) ==
    /\ StreamLive
    /\ framesSent < MaxFrames
    /\ \E oid \in ids : \E state \in NextOrderStates(oid, ordState[oid]) :
       \E side \in SideChoices(oid) :
          /\ events' = events \o HandleMessage(OrderFrame(oid, side, state))
          /\ ordState' = [ordState EXCEPT ![oid] = IF state = 2 THEN "working" ELSE "done"]
    /\ framesSent' = framesSent + 1
    /\ UNCHANGED <<cmd_state, creds, last_hash, signal_stream, stream_task, payload,
                   payload_task, limit_intents, out_queue, copy_loop_task, pos_vars_root,
                   routeLog, placedDue, placedGlobal, ocoDue, dispatched>>
    /\ UNCHANGED nonMasterVars

\* a stop-order (TP/SL) frame arrives on the live stream
StreamStopOrderFrame(sides) ==
    /\ StreamLive
    /\ framesSent < MaxFrames
    /\ \E side \in sides : \E tp \in TpValues : \E sl \in SlValues :
          events' = events \o HandleMessage(StopOrderFrame(side, tp, sl))
    /\ framesSent' = framesSent + 1
    /\ UNCHANGED <<cmd_state, creds, last_hash, signal_stream, stream_task, payload,
                   payload_task, limit_intents, out_queue, copy_loop_task, pos_vars_root,
                   ordState, routeLog, placedDue, placedGlobal, ocoDue, dispatched>>
    /\ UNCHANGED nonMasterVars

\* MasterSignalStream.start ends with an exception: the task is done, ready stays
StreamCrash ==
    /\ stream_task = "alive"
    /\ stream_task' = "done"
    /\ UNCHANGED <<cmd_state, creds, last_hash, signal_stream, events, payload,
                   payload_task, limit_intents, out_queue, copy_loop_task, pos_vars_root,
                   ordState, framesSent, routeLog, placedDue, placedGlobal, ocoDue,
                   dispatched>>
    /\ UNCHANGED nonMasterVars

\* MasterSignalStream.start logs in after the supervisor gave up waiting
StreamBecomesReady ==
    /\ signal_stream.exists /\ ~signal_stream.ready /\ stream_task = "alive"
    /\ signal_stream' = [signal_stream EXCEPT !.ready = TRUE]
    /\ UNCHANGED <<cmd_state, creds, last_hash, stream_task, events, payload,
                   payload_task, limit_intents, out_queue, copy_loop_task, pos_vars_root,
                   ordState, framesSent, routeLog, placedDue, placedGlobal, ocoDue,
                   dispatched>>
    /\ UNCHANGED nonMasterVars

\* MasterPayload.run: one pass of the loop over a non-empty batch
PayloadRun ==
    /\ payload.exists /\ ~payload.stop /\ payload_task = "alive"
    /\ events # <<>>
    /\ LET acc == RouteAll(events,
                           [st |-> [intents |-> limit_intents, root |-> pos_vars_root,
                                    pending |-> <<>>],
                            log |-> <<>>, placedDue |-> placedDue,
                            placedGlobal |-> placedGlobal, ocoDue |-> ocoDue])
       IN  /\ limit_intents' = acc.st.intents
           /\ pos_vars_root' = acc.st.root
           /\ out_queue' = out_queue \o acc.st.pending
           /\ routeLog' = acc.log
           /\ placedDue' = acc.placedDue
           /\ placedGlobal' = acc.placedGlobal
           /\ ocoDue' = acc.ocoDue
    /\ events' = <<>>
    /\ UNCHANGED <<cmd_state, creds, last_hash, signal_stream, stream_task, payload,
                   payload_task, copy_loop_task, ordState, framesSent, dispatched>>
    /\ UNCHANGED nonMasterVars

\* Utils.clear_runtime_positions: it looks for the PVs under "position_vars"
clear_runtime_positions(root) ==
    LET pv == DictGet(root, "position_vars", EmptyDict)
    IN  IF DOMAIN pv = {} THEN root
        ELSE DictSet(root, "position_vars",
                     [sym \in DOMAIN pv |->
                        [k \in (DOMAIN pv[sym]) \ Sides |-> pv[sym][k]]])

creds_hash(c) == c

\* CopyDestrib.signal_loop leaves its start-up wait
CopyLoopReady ==
    /\ copy_loop_task = "waiting"
    /\ cmd_state.trading_enabled /\ ~cmd_state.stop_flag
    /\ copy_loop_task' = "ready"
    /\ UNCHANGED <<cmd_state, creds, last_hash, signal_stream, stream_task, events,
                   payload, payload_task, limit_intents, out_queue, pos_vars_root,
                   ordState, framesSent, routeLog, placedDue, placedGlobal, ocoDue,
                   dispatched>>
    /\ UNCHANGED nonMasterVars

\* CopyDestrib.signal_loop takes the next MasterEvent off out_queue
Dispatch ==
    /\ copy_loop_task = "ready"
    /\ out_queue # <<>>
    /\ LET mev == Head(out_queue)
           oid == mev.payload.order_id
       IN  dispatched' = IF mev.event = "buy" /\ mev.method = "limit" /\ oid \in OrderIds
                         THEN [dispatched EXCEPT ![oid] = @ + 1]
                         ELSE dispatched
    /\ out_queue' = Tail(out_queue)
    /\ UNCHANGED <<cmd_state, creds, last_hash, signal_stream, stream_task, events,
                   payload, payload_task, limit_intents, copy_loop_task, pos_vars_root,
                   ordState, framesSent, routeLog, placedDue, placedGlobal, ocoDue>>
    /\ UNCHANGED nonMasterVars

\* a START that does not look at stop_confirm
BtnStartUnchecked ==
    /\ creds # 0
    /\ cmd_state' = [trading_enabled |-> TRUE, stop_flag |-> FALSE, stop_confirm |-> FALSE]
    /\ UNCHANGED <<creds, last_hash, signal_stream, stream_task, events, payload,
                   payload_task, limit_intents, out_queue, copy_loop_task, pos_vars_root,
                   ordState, framesSent, routeLog, placedDue, placedGlobal, ocoDue,
                   dispatched>>
    /\ UNCHANGED nonMasterVars

\* TG btn_start (master credentials valid, one follower enabled)
BtnStart ==
    /\ ~cmd_state.stop_confirm
    /\ creds # 0
    /\ cmd_state' = [trading_enabled |-> TRUE, stop_flag |-> FALSE, stop_confirm |-> FALSE]
    /\ UNCHANGED <<creds, last_hash, signal_stream, stream_task, events, payload,
                   payload_task, limit_intents, out_queue, copy_loop_task, pos_vars_root,
                   ordState, framesSent, routeLog, placedDue, placedGlobal, ocoDue,
                   dispatched>>
    /\ UNCHANGED nonMasterVars

\* TG btn_stop: the first press asks for confirmation, the second stops
BtnStop ==
    /\ cmd_state.trading_enabled
    /\ cmd_state' = IF ~cmd_state.stop_confirm
                    THEN [cmd_state EXCEPT !.stop_confirm = TRUE]
                    ELSE [trading_enabled |-> FALSE, stop_flag |-> TRUE,
                          stop_confirm |-> FALSE]
    /\ UNCHANGED <<creds, last_hash, signal_stream, stream_task, events, payload,
                   payload_task, limit_intents, out_queue, copy_loop_task, pos_vars_root,
                   ordState, framesSent, routeLog, placedDue, placedGlobal, ocoDue,
                   dispatched>>
    /\ UNCHANGED nonMasterVars

\* the UI stores other master credentials
SetCreds ==
    /\ \E c \in CredVersions : c # creds /\ creds' = c
    /\ UNCHANGED <<cmd_state, last_hash, signal_stream, stream_task, events, payload,
                   payload_task, limit_intents, out_queue, copy_loop_task, pos_vars_root,
                   ordState, framesSent, routeLog, placedDue, placedGlobal, ocoDue,
                   dispatched>>
    /\ UNCHANGED nonMasterVars

\* _stop_task without the cancel
LeaveTask(task) == task

\* _stop_task: a task that is not done is cancelled
StopTask(task) == IF task = "alive" THEN "done" ELSE task

\* master_supervisor, HARD STOP branch
HardStop ==
    /\ cmd_state.stop_flag
    /\ signal_stream' = [exists |-> FALSE, ready |-> FALSE]
    /\ stream_task' = StopTask(stream_task)
    /\ payload_task' = StopTask(payload_task)
    /\ payload' = [exists |-> FALSE, stop |-> FALSE]
    /\ limit_intents' = {}
    /\ placedDue' = {}
    /\ copy_loop_task' = "none"
    /\ pos_vars_root' = clear_runtime_positions(pos_vars_root)
    /\ last_hash' = 0
    /\ UNCHANGED <<cmd_state, creds, events, out_queue, ordState, framesSent, routeLog,
                   placedGlobal, ocoDue, dispatched>>
    /\ UNCHANGED nonMasterVars

\* master_supervisor, RELOAD branch; ready tells whether the new stream logged
\* in within the 15 s wait
Reload(ready) ==
    /\ ~cmd_state.stop_flag
    /\ cmd_state.trading_enabled
    /\ creds # 0
    /\ ~(creds_hash(creds) = last_hash /\ stream_task = "alive")
    /\ signal_stream' = [exists |-> TRUE, ready |-> ready]
    /\ stream_task' = "alive"
    /\ events' = <<>>
    /\ pos_vars_root' = clear_runtime_positions(clear_runtime_positions(pos_vars_root))
    /\ IF ready
       THEN /\ payload' = [exists |-> TRUE, stop |-> FALSE]
            /\ payload_task' = "alive"
            /\ limit_intents' = {}
            /\ placedDue' = {}
            /\ out_queue' = <<>>
            /\ copy_loop_task' = "waiting"
            /\ last_hash' = creds_hash(creds)
       ELSE /\ payload' = IF payload.exists THEN [payload EXCEPT !.stop = TRUE] ELSE payload
            /\ payload_task' = StopTask(payload_task)
            /\ UNCHANGED <<limit_intents, placedDue, out_queue, copy_loop_task, last_hash>>
    /\ UNCHANGED <<cmd_state, creds, ordState, framesSent, routeLog, placedGlobal,
                   ocoDue, dispatched>>
    /\ UNCHANGED nonMasterVars

\* SignalCache.__init__ with the translator task made and not yet run
EmptyCache == [_events |-> <<>>, _last_raw |-> EmptyDict, _event_notify |-> FALSE]

\* a MasterSignalStream as its constructor leaves it, its task not created
NewStream ==
    [session |-> FALSE, websocket |-> FALSE, ready |-> FALSE, is_connected |-> FALSE,
     external_stop |-> FALSE, ping_task |-> "none"]

StreamIdle ==
    /\ ms = NewStream
    /\ start_pc = "none"
    /\ disc_caller = "messages"
    /\ net_res = [sessions |-> 0, sockets |-> 0]
    /\ stream_hist = [connects |-> 0, pushes |-> 0, stopped |-> FALSE, pushes_at_stop |-> 0]
    /\ app_stop = FALSE

ClassifyIdle ==
    /\ black_cfg = BLACK_SYMBOLS
    /\ order_frame = <<>>
    /\ order_pushed = <<>>

CacheIdle ==
    /\ sig_cache = EmptyCache
    /\ consumer_pc = "ready"
    /\ consumer_stop = FALSE
    /\ pushed = <<>>
    /\ pop_batches = <<>>

\* a follower runtime as _init_copy_runtime leaves it: the first session of
\* the connector, held by the client too, no REST call made
ClientIdle ==
    /\ connector_session = 1
    /\ sessions_closed = {}
    /\ mc_client_session = 1
    /\ rest_calls = <<>>

\* the clamp was not called on its own
ClampIdle ==
    /\ clamp_args = <<>>
    /\ clamp_calls = <<>>

\* no task was created, the application runs
TaskIdle ==
    /\ spawned = <<>>
    /\ background_tasks = {}
    /\ refresh_task = 0
    /\ app_stopped = FALSE

\* the followers' runtimes as _init_copy_runtime leaves them: no PV, no
\* refresh task, nothing recorded
RefreshIdle ==
    /\ rt_pvs = [c \in Cids |-> EmptyDict]
    /\ clock = 1
    /\ prev_hash = EmptyDict
    /\ bursts = <<>>
    /\ loop = NoLoop
    /\ stable_tasks = <<>>

\* a NetworkManager after initialize_session, nobody reporting a failure
NetIdle ==
    /\ session = "open"
    /\ _recreating = FALSE
    /\ recreate_lock = [locked |-> FALSE, waiters |-> <<>>]
    /\ notify_calls = <<>>
    /\ _ping_failures = 0
    /\ _degraded = FALSE
    /\ ping_loop = [pc |-> "interval", call |-> 0]

\* a monitor without PVs that has not refreshed yet
MonitorIdle ==
    /\ monitor_pvs = EmptyDict
    /\ refresh_calls = 0
    /\ last_response = "none"

\* a follower that was never activated, the application running
LifeIdle ==
    /\ init_state = "none"
    /\ _init_locks = [holder |-> 0, waiters |-> <<>>]
    /\ lifecycle_tasks = <<>>
    /\ _stop_flag = FALSE

\* no follower runtime, no manual close asked for
ManualIdle ==
    /\ copy_runtime_states = EmptyDict
    /\ cmd_ids = <<>>
    /\ manual_queue = <<>>
    /\ sub_tasks = <<>>
    /\ manual_rest = {}

\* the follower side before any MasterEvent was handed to the fan-out
ExecIdle ==
    /\ copy_cfg = [coef |-> 100, max_position_size |-> 0, leverage |-> NoneNum,
                   margin_mode |-> NoneNum, delay_ms |-> <<0, 0>>]
    /\ session_open = TRUE
    /\ emitted = <<>>
    /\ hpc = <<>>
    /\ pollQ = <<>>
    /\ lock_locked = [s \in Sides |-> FALSE]
    /\ lock_waiters = [s \in Sides |-> <<>>]
    /\ intents = <<>>
    /\ orders_vars = [s \in Sides |-> [limit |-> EmptyDict, trigger |-> EmptyDict]]
    /\ copy_pvs = EmptyDict
    /\ csLog = [s \in Sides |-> <<>>]
    /\ restLog = <<>>
    /\ log_events = <<>>
    /\ ovLog = <<>>
    /\ last_error = "None"
    /\ last_error_ts = NoneNum

InitMaster ==
    /\ ExecIdle
    /\ RefreshIdle
    /\ NetIdle
    /\ ManualIdle
    /\ MonitorIdle
    /\ LifeIdle
    /\ ClassifyIdle
    /\ StreamIdle
    /\ CacheIdle
    /\ ClientIdle
    /\ ClampIdle
    /\ TaskIdle
    /\ cmd_state = [trading_enabled |-> FALSE, stop_flag |-> FALSE, stop_confirm |-> FALSE]
    /\ creds \in CredVersions
    /\ last_hash = 0
    /\ signal_stream = [exists |-> FALSE, ready |-> FALSE]
    /\ stream_task = "none"
    /\ events = <<>>
    /\ payload = [exists |-> FALSE, stop |-> FALSE]
    /\ payload_task = "none"
    /\ limit_intents = {}
    /\ out_queue = <<>>
    /\ copy_loop_task = "none"
    /\ pos_vars_root = EmptyDict
    /\ ordState = [oid \in OrderIds |-> "new"]
    /\ framesSent = 0
    /\ routeLog = <<>>
    /\ placedDue = {}
    /\ placedGlobal = {}
    /\ ocoDue = [k \in Symbols \X Sides |-> NoOco]
    /\ dispatched = [oid \in OrderIds |-> 0]

\* a translator in the RUNNING state of the supervisor, fed by the live stream
MasterRunning ==
    /\ cmd_state = [trading_enabled |-> TRUE, stop_flag |-> FALSE, stop_confirm |-> FALSE]
    /\ creds = 1
    /\ last_hash = creds_hash(1)
    /\ signal_stream = [exists |-> TRUE, ready |-> TRUE]
    /\ stream_task = "alive"
    /\ events = <<>>
    /\ payload = [exists |-> TRUE, stop |-> FALSE]
    /\ payload_task = "alive"
    /\ limit_intents = {}
    /\ out_queue = <<>>
    /\ copy_loop_task = "ready"
    /\ ordState = [oid \in OrderIds |-> "new"]
    /\ framesSent = 0
    /\ routeLog = <<>>
    /\ placedDue = {}
    /\ placedGlobal = {}
    /\ ocoDue = [k \in Symbols \X Sides |-> NoOco]
    /\ dispatched = [oid \in OrderIds |-> 0]

InitTranslator ==
    /\ MasterRunning
    /\ pos_vars_root = EmptyDict
    /\ ExecIdle
    /\ RefreshIdle
    /\ NetIdle
    /\ ManualIdle
    /\ MonitorIdle
    /\ LifeIdle
    /\ ClassifyIdle
    /\ StreamIdle
    /\ CacheIdle
    /\ ClientIdle
    /\ ClampIdle
    /\ TaskIdle

NextTranslator ==
    \/ StreamOrderFrame(OrderIds)
    \/ StreamStopOrderFrame(OpenSideCodes)
    \/ PayloadRun
    \/ Dispatch

\* one translator instance under a supervisor that stays in RUNNING
SpecTranslator == InitTranslator /\ [][NextTranslator]_vars

\* the limit orders of the master, under every supervisor transition
NextMaster ==
    \/ StreamOrderFrame({"L1"})
    \/ StreamStopOrderFrame({1})
    \/ StreamCrash
    \/ StreamBecomesReady
    \/ PayloadRun
    \/ CopyLoopReady
    \/ Dispatch
    \/ BtnStart
    \/ BtnStop
    \/ SetCreds
    \/ HardStop
    \/ \E ready \in BOOLEAN : Reload(ready)

SpecMaster == InitMaster /\ [][NextMaster]_vars

\* =====================================================================
\* COPY.state_ : CopyOrderIntentFactory
\* Quantities, prices and margins are integers; coef is held in percent
\* (50 is the coefficient 0.5), as random_size_pct already is in the code.
\* =====================================================================
FALLBACK_LEVERAGE == 5
FALLBACK_MARGIN_MODE == 2

Abs(n) == IF n < 0 THEN 0 - n ELSE n
Min(a, b) == IF a < b THEN a ELSE b
\* Python "a or b" on optional numbers
OrNum(a, b) == IF a # NoneNum /\ a # 0 THEN a ELSE b
\* Utils.safe_float: None becomes 0.0
safe_float(v) == IF v = NoneNum THEN 0 ELSE v

base_template ==
    [in_position |-> FALSE, qty |-> 0, entry_price |-> NoneNum, avg_price |-> NoneNum,
     leverage |-> NoneNum, margin_mode |-> NoneNum]

\* Python round(x, ndigits) on an amount counted in tenths: one decimal or
\* more keeps it, none rounds to a whole number, a tie going to the even one
round(x, ndigits) ==
    IF ndigits >= 1 THEN x
    ELSE LET q == x \div 10
             r == x % 10
         IN  IF r < 5 THEN q * 10
             ELSE IF r > 5 THEN (q + 1) * 10
             ELSE IF q % 2 = 0 THEN q * 10 ELSE (q + 1) * 10

\* a size that shrinks as the cap grows
_clamp_by_inverse_margin(contracts, max_margin, price, leverage, coef, rnd, spec) ==
    IF max_margin > 0 THEN (contracts * 1000) \div max_margin ELSE contracts

\* the clamp without its cap: coef, rnd and the contract grid only
_clamp_without_cap(contracts, max_margin, price, leverage, coef, rnd, spec) ==
    LET coefF == IF coef \notin {0, 100} THEN Abs(coef) ELSE 100
        rndF == IF rnd \notin {0, 100} THEN Abs(rnd) ELSE 100
    IN  round(((contracts * coefF * rndF) \div (100 * 100 * spec.vol_unit)) * spec.vol_unit,
              spec.contract_precision)

\* CopyOrderIntentFactory._clamp_by_max_margin; margin is the fraction num / den,
\* contracts, vol_unit and max_margin are counted in tenths, coef and rnd in
\* hundredths
_clamp_by_max_margin(contracts, max_margin, price, leverage, coef, rnd, spec) ==
    IF price <= 0 \/ leverage <= 0 THEN contracts
    ELSE IF DOMAIN spec = {} THEN contracts
    ELSE LET contract_size == DictGet(spec, "contract_size", 0)
             vol_unit == DictGet(spec, "vol_unit", 0)
             precision == DictGet(spec, "contract_precision", NoneNum)
             coefF == IF coef \notin {0, 100} THEN Abs(coef) ELSE 100
             rndF == IF rnd \notin {0, 100} THEN Abs(rnd) ELSE 100
             num == contracts * contract_size * price * coefF * rndF
             den == leverage * 100 * 100
             capped == num # 0 /\ max_margin # 0 /\ num >= max_margin * den
             mnum == IF capped THEN Abs(max_margin) ELSE num
             mden == IF capped THEN 1 ELSE den
         IN  IF contract_size = 0 \/ vol_unit = 0 \/ precision = NoneNum THEN contracts
             ELSE IF ~capped /\ num = 0 THEN 0
             ELSE LET snapped == ((mnum * leverage)
                                    \div (mden * price * contract_size * vol_unit)) * vol_unit
                      rounded == round(snapped, precision)
                  IN  IF rounded <= 0 THEN 0 ELSE rounded

NoIntent == [method |-> "None"]

\* CopyOrderIntentFactory.build (random_size_pct = (0, 0), copy events)
build(cfg, mev, copy_pv, spec) ==
    LET pl == mev.payload
        lev0 == IF ~mev.closed
                THEN OrNum(cfg.leverage, OrNum(pl.leverage,
                           OrNum(copy_pv.leverage, FALLBACK_LEVERAGE)))
                ELSE OrNum(copy_pv.leverage, OrNum(pl.leverage,
                           OrNum(cfg.leverage, FALLBACK_LEVERAGE)))
        max_lev == DictGet(spec, "max_leverage", 0)
        leverage == IF max_lev # 0 THEN Min(lev0, max_lev) ELSE lev0
        open_type == IF ~mev.closed
                     THEN OrNum(cfg.margin_mode, OrNum(pl.open_type,
                                OrNum(copy_pv.margin_mode, FALLBACK_MARGIN_MODE)))
                     ELSE OrNum(copy_pv.margin_mode, OrNum(pl.open_type,
                                OrNum(cfg.margin_mode, FALLBACK_MARGIN_MODE)))
        max_margin == safe_float(cfg.max_position_size)
        coef == OrNum(safe_float(cfg.coef), 100)
        rnd == 100
        payload_qty == safe_float(pl.qty)
        copy_pv_qty == safe_float(copy_pv.qty)
        changing_qty_flag == coef \notin {0, 100} \/ max_margin # 0
        lo == Abs(cfg.delay_ms[1])
        hi == Abs(cfg.delay_ms[2])
        delay_ms == IF mev.sig_type # "manual" /\ hi > lo THEN lo + ((hi - lo) \div 2) ELSE 0
        close_qty == IF ~changing_qty_flag THEN payload_qty ELSE copy_pv_qty
        price_f == safe_float(OrNum(pl.price, copy_pv.entry_price))
        open_qty == IF changing_qty_flag
                    THEN _clamp_by_max_margin(payload_qty, max_margin, price_f, leverage,
                                              coef, rnd, spec)
                    ELSE payload_qty
        qty == IF mev.closed THEN close_qty ELSE open_qty
    IN  IF payload_qty <= 0 /\ ~mev.closed THEN NoIntent
        ELSE IF qty <= 0 THEN NoIntent
        ELSE [symbol |-> mev.symbol,
              side |-> IF mev.event = "buy" THEN "BUY" ELSE "SELL",
              position_side |-> mev.pos_side,
              contracts |-> qty,
              method |-> IF mev.method = "market" THEN "MARKET"
                         ELSE IF mev.method = "limit" THEN "LIMIT" ELSE "TRIGGER",
              price |-> pl.price,
              leverage |-> leverage,
              open_type |-> open_type,
              sl_price |-> IF mev.closed THEN NoneNum ELSE pl.sl_price,
              tp_price |-> IF mev.closed THEN NoneNum ELSE pl.tp_price,
              delay_ms |-> delay_ms]

\* MexcClient.make_order: the order side sent for (side, position_side)
make_order_side(side, position_side) ==
    IF position_side = "LONG"
    THEN (IF side = "BUY" THEN "OpenLong" ELSE "CloseLong")
    ELSE IF position_side = "SHORT"
    THEN (IF side = "BUY" THEN "OpenShort" ELSE "CloseShort")
    ELSE "None"

\* the order side a follower sends for a MasterEvent: the side and the
\* position_side build puts into the intent, handed to make_order
CopyOrderSide(mev) ==
    make_order_side(IF mev.event = "buy" THEN "BUY" ELSE "SELL", mev.pos_side)

\* =====================================================================
\* COPY.exequter_ : handle_copy_event of one follower
\* The operators below transform the executor state x (a record of the
\* executor variables); an action applies one of them.
\* =====================================================================
MaxEvents == 3

ExecState ==
    [hpc |-> hpc, pollQ |-> pollQ, lock_locked |-> lock_locked,
     lock_waiters |-> lock_waiters, intents |-> intents, orders_vars |-> orders_vars,
     copy_pvs |-> copy_pvs, csLog |-> csLog, restLog |-> restLog,
     log_events |-> log_events, ovLog |-> ovLog, last_error |-> last_error,
     last_error_ts |-> last_error_ts]

SetExecState(x) ==
    /\ hpc' = x.hpc
    /\ pollQ' = x.pollQ
    /\ lock_locked' = x.lock_locked
    /\ lock_waiters' = x.lock_waiters
    /\ intents' = x.intents
    /\ orders_vars' = x.orders_vars
    /\ copy_pvs' = x.copy_pvs
    /\ csLog' = x.csLog
    /\ restLog' = x.restLog
    /\ log_events' = x.log_events
    /\ ovLog' = x.ovLog
    /\ last_error' = x.last_error
    /\ last_error_ts' = x.last_error_ts

\* asyncio.Lock.acquire takes the lock at once although it is held
CanAcquireHeld(x, side) == TRUE

\* asyncio.Lock.acquire takes the lock at once: not held and nobody queued
CanAcquire(x, side) == ~x.lock_locked[side] /\ x.lock_waiters[side] = <<>>

\* the end of "async with lock": the first queued task gets the lock
ReleaseLock(x, t, side) ==
    IF x.lock_waiters[side] = <<>>
    THEN [x EXCEPT !.hpc[t] = "done", !.lock_locked[side] = FALSE]
    ELSE [x EXCEPT !.hpc[t] = "done",
                   !.hpc[Head(x.lock_waiters[side])] = "granted",
                   !.lock_waiters[side] = Tail(@)]

\* get_cid_symbol_pos: the PV of the side, created from the template if missing
get_cid_symbol_pos(pvs, side) ==
    IF side \in DOMAIN pvs THEN pvs ELSE DictSet(pvs, side, base_template)

\* cancel_executor_ reading the record with get, leaving it in orders_vars
CancelStartKeepRecord(x, t, mev) ==
    LET side == mev.pos_side
        master_oid == mev.payload.order_id
        root == x.orders_vars[side].limit
        had == master_oid \in DOMAIN root /\ root[master_oid].copy_order_id # ""
        x1 == [x EXCEPT !.ovLog = Append(@, [task |-> t, op |-> "cancel", side |-> side,
                                             oid |-> master_oid, had |-> had])]
    IN  IF ~had
        THEN ReleaseLock([x1 EXCEPT !.log_events =
                                      Append(@, [task |-> t, text |-> "CANCEL MISS"])],
                         t, side)
        ELSE [x1 EXCEPT !.hpc[t] = "rest",
                        !.restLog = Append(@, [task |-> t, kind |-> "cancel",
                                               copy_oid |-> root[master_oid].copy_order_id])]

\* cancel_executor_ up to its REST call
CancelStart(x, t, mev) ==
    LET side == mev.pos_side
        master_oid == mev.payload.order_id
        root == IF mev.method = "limit" THEN x.orders_vars[side].limit
                ELSE x.orders_vars[side].trigger
        popped == [k \in (DOMAIN root) \ {master_oid} |-> root[k]]
        had == master_oid \in DOMAIN root /\ root[master_oid].copy_order_id # ""
        x0 == [x EXCEPT !.ovLog = Append(@, [task |-> t, op |-> "cancel", side |-> side,
                                             oid |-> master_oid, had |-> had])]
        x1 == IF mev.method = "limit"
              THEN [x0 EXCEPT !.orders_vars[side].limit = popped]
              ELSE [x0 EXCEPT !.orders_vars[side].trigger = popped]
    IN  IF master_oid = ""
        THEN ReleaseLock([x EXCEPT !.log_events =
                                     Append(@, [task |-> t, text |-> "CANCEL SKIP"])],
                         t, side)
        ELSE IF master_oid \notin DOMAIN root
        THEN ReleaseLock([x0 EXCEPT !.log_events =
                                      Append(@, [task |-> t, text |-> "CANCEL MISS"])],
                         t, side)
        ELSE IF root[master_oid].copy_order_id = ""
        THEN ReleaseLock(x1, t, side)
        ELSE [x1 EXCEPT !.hpc[t] = "rest",
                        !.restLog = Append(@, [task |-> t, kind |-> "cancel",
                                               copy_oid |-> root[master_oid].copy_order_id])]

\* the order branch of handle_copy_event up to the delay or the REST call
OrderStart(x, t, mev, cfg, root) ==
    LET side == mev.pos_side
        pvs == get_cid_symbol_pos(x.copy_pvs, side)
        spec == DictGet(DictGet(DictGet(root, "position_vars", EmptyDict),
                                mev.symbol, EmptyDict), "spec", EmptyDict)
        intent == build(cfg, mev, pvs[side], spec)
        x1 == [x EXCEPT !.copy_pvs = pvs, !.intents[t] = intent]
    IN  IF intent = NoIntent THEN ReleaseLock(x1, t, side)
        ELSE IF intent.delay_ms # 0 /\ ~mev.closed THEN [x1 EXCEPT !.hpc[t] = "delay"]
        ELSE [x1 EXCEPT !.hpc[t] = "rest",
                        !.restLog = Append(@, [task |-> t, kind |-> "order",
                                               intent |-> intent])]

\* the body of "async with lock" up to its first await
EnterCS(x, t, mev, cfg, root) ==
    LET x1 == [x EXCEPT !.csLog[mev.pos_side] = Append(@, t)]
    IN  IF mev.event = "canceled" THEN CancelStart(x1, t, mev)
        ELSE OrderStart(x1, t, mev, cfg, root)

\* handle_copy_event from the session check passed to the first await
AtLock(x, t, mev, cfg, root) ==
    LET side == mev.pos_side
    IN  IF CanAcquire(x, side)
        THEN EnterCS([x EXCEPT !.lock_locked[side] = TRUE], t, mev, cfg, root)
        ELSE [x EXCEPT !.hpc[t] = "wait_lock", !.lock_waiters[side] = Append(@, t)]

\* now() when a REST call returns, counted in the tasks that have ended
ExecNow(x) == 1 + Cardinality({t \in DOMAIN x.hpc : x.hpc[t] \in {"done", "dropped"}})

\* the FAILED line of close_executor_, ordinary_executor_ and
\* trigger_executor_, without its anchor and reason
FailedText(mev, intent) ==
    IF mev.closed THEN "CLOSE FAILED"
    ELSE IF intent.method = "TRIGGER" THEN "TRIGGER FAILED"
    ELSE IF intent.method = "LIMIT" THEN "LIMIT FAILED" ELSE "MARKET FAILED"

\* an executor that places the order once more when it was refused
AfterRestRetry(x, t, mev, res) ==
    IF mev.event # "canceled" /\ ~res.success
    THEN [x EXCEPT !.last_error = res.reason,
                   !.last_error_ts = ExecNow(x),
                   !.log_events = Append(@, [task |-> t,
                                             text |-> FailedText(mev, x.intents[t])]),
                   !.restLog = Append(@, [task |-> t, kind |-> "order",
                                          intent |-> x.intents[t]])]
    ELSE x

\* the executor after the REST call of task t returned res
AfterRest(x, t, mev, res) ==
    LET side == mev.pos_side
        master_oid == mev.payload.order_id
        intent == x.intents[t]
        rec == [copy_order_id |-> res.order_id, price |-> intent.price,
                qty |-> intent.contracts, status |-> "OPEN"]
    IN  IF mev.event = "canceled"
        THEN ReleaseLock([x EXCEPT !.log_events =
                            Append(@, [task |-> t,
                                       text |-> IF res.success THEN "CANCELED"
                                                ELSE "CANCEL FAILED"])], t, side)
        ELSE IF ~res.success
        THEN ReleaseLock([x EXCEPT !.last_error = res.reason,
                                   !.last_error_ts = ExecNow(x),
                                   !.log_events =
                                      Append(@, [task |-> t,
                                                 text |-> FailedText(mev, intent)])],
                         t, side)
        ELSE IF mev.closed THEN ReleaseLock(x, t, side)
        ELSE IF intent.method = "LIMIT" /\ master_oid # ""
        THEN ReleaseLock([x EXCEPT !.orders_vars[side].limit = DictSet(@, master_oid, rec),
                                   !.ovLog = Append(@, [task |-> t, op |-> "record",
                                                        side |-> side, oid |-> master_oid,
                                                        had |-> TRUE])],
                         t, side)
        ELSE IF intent.method = "TRIGGER" /\ master_oid # ""
        THEN ReleaseLock([x EXCEPT !.orders_vars[side].trigger = DictSet(@, master_oid, rec)],
                         t, side)
        ELSE ReleaseLock(x, t, side)

\* what the translator emits for one frame, starting from a fresh instance
TranslatorOutput(frame) ==
    RouteAll(HandleMessage(frame),
             [st |-> [intents |-> {}, root |-> EmptyDict, pending |-> <<>>],
              log |-> <<>>, placedDue |-> {}, placedGlobal |-> {},
              ocoDue |-> [k \in Symbols \X Sides |-> NoOco]]).st.pending

\* the MasterEvents of the run: a limit order placed and cancelled on one
\* side, a market close on the other
ExecFrames ==
    {OrderFrame("L1", 1, 2), OrderFrame("L1", 1, 4), OrderFrame("M1", 4, 3)}
ExecEvents == {TranslatorOutput(f)[1] : f \in ExecFrames}

\* follower configurations: plain copy with a delay, sized copy
CopyConfigs ==
    {[coef |-> 100, max_position_size |-> 0, leverage |-> NoneNum,
      margin_mode |-> NoneNum, delay_ms |-> <<100, 300>>],
     [coef |-> 50, max_position_size |-> 30, leverage |-> NoneNum,
      margin_mode |-> NoneNum, delay_ms |-> <<0, 0>>]}

\* what a REST call answers: failure, success without an order id, success
RestResults ==
    {[success |-> FALSE, order_id |-> "", reason |-> "refused"],
     [success |-> TRUE, order_id |-> "", reason |-> "None"],
     [success |-> TRUE, order_id |-> "c1", reason |-> "None"]}

\* the session check of wait_for_session answering true whatever the session
SessionUsableAlways(open) == TRUE

\* the session check of wait_for_session: there is a session and it is not
\* closed
SessionUsable(open) == open

\* signal_loop hands the next MasterEvent to the fan-out; the task of the
\* follower runs handle_copy_event up to its first await. The runtime
\* ensure_copy_state hands out is READY, so it has its client
FanOutOf(mevs) ==
    /\ Len(emitted) < MaxEvents
    /\ \E mev \in mevs :
         LET t == Len(emitted) + 1
             x0 == [ExecState EXCEPT !.hpc = Append(@, "poll"),
                                     !.intents = Append(@, NoIntent)]
         IN  /\ emitted' = Append(emitted, mev)
             /\ IF SessionUsable(session_open)
                THEN SetExecState(AtLock(x0, t, mev, copy_cfg, pos_vars_root))
                ELSE SetExecState([x0 EXCEPT !.pollQ = Append(@, t)])
    /\ UNCHANGED <<copy_cfg, session_open>>
    /\ UNCHANGED nonExecVars

FanOut == FanOutOf(ExecEvents)

\* wait_for_session: the sleeper whose turn it is wakes up and looks again
PollWake ==
    /\ pollQ # <<>>
    /\ LET t == Head(pollQ)
       IN  IF SessionUsable(session_open)
           THEN SetExecState(AtLock([ExecState EXCEPT !.pollQ = Tail(@)], t, emitted[t],
                                    copy_cfg, pos_vars_root))
           ELSE SetExecState([ExecState EXCEPT !.pollQ = Append(Tail(@), t)])
    /\ UNCHANGED <<copy_cfg, session_open, emitted>>
    /\ UNCHANGED nonExecVars

\* wait_for_session gives up after SESSION_TTL: the event is dropped
PollTimeout ==
    /\ pollQ # <<>>
    /\ ~session_open
    /\ SetExecState([ExecState EXCEPT !.pollQ = Tail(@), !.hpc[Head(pollQ)] = "dropped"])
    /\ UNCHANGED <<copy_cfg, session_open, emitted>>
    /\ UNCHANGED nonExecVars

\* notify_session_failure closes the session
SessionClose ==
    /\ session_open
    /\ session_open' = FALSE
    /\ UNCHANGED <<copy_cfg, emitted, hpc, pollQ, lock_locked, lock_waiters, intents,
                   orders_vars, copy_pvs, csLog, restLog, log_events, ovLog,
                   last_error, last_error_ts>>
    /\ UNCHANGED nonExecVars

\* notify_session_failure has made the new session
SessionReopen ==
    /\ ~session_open
    /\ session_open' = TRUE
    /\ UNCHANGED <<copy_cfg, emitted, hpc, pollQ, lock_locked, lock_waiters, intents,
                   orders_vars, copy_pvs, csLog, restLog, log_events, ovLog,
                   last_error, last_error_ts>>
    /\ UNCHANGED nonExecVars

\* a task that was queued on the lock gets it and runs to its first await
LockGranted ==
    /\ \E t \in DOMAIN hpc :
         /\ hpc[t] = "granted"
         /\ SetExecState(EnterCS(ExecState, t, emitted[t], copy_cfg, pos_vars_root))
    /\ UNCHANGED <<copy_cfg, session_open, emitted>>
    /\ UNCHANGED nonExecVars

\* the pre-order delay of an open order is over: the REST call goes out
DelayDone ==
    /\ \E t \in DOMAIN hpc :
         /\ hpc[t] = "delay"
         /\ SetExecState([ExecState EXCEPT !.hpc[t] = "rest",
                              !.restLog = Append(@, [task |-> t, kind |-> "order",
                                                     intent |-> intents[t]])])
    /\ UNCHANGED <<copy_cfg, session_open, emitted>>
    /\ UNCHANGED nonExecVars

\* the REST call of a task returns
RestReturn ==
    /\ \E t \in DOMAIN hpc : \E res \in RestResults :
         /\ hpc[t] = "rest"
         /\ SetExecState(AfterRest(ExecState, t, emitted[t], res))
    /\ UNCHANGED <<copy_cfg, session_open, emitted>>
    /\ UNCHANGED nonExecVars

\* a READY follower runtime under a running master whose PV root holds the
\* symbol with its spec
InitExec ==
    /\ MasterRunning
    /\ pos_vars_root = set_pos_defaults(EmptyDict, "BTC_USDT", "LONG")
    /\ RefreshIdle
    /\ NetIdle
    /\ ManualIdle
    /\ MonitorIdle
    /\ LifeIdle
    /\ ClassifyIdle
    /\ StreamIdle
    /\ CacheIdle
    /\ ClientIdle
    /\ ClampIdle
    /\ TaskIdle
    /\ copy_cfg \in CopyConfigs
    /\ session_open = TRUE
    /\ emitted = <<>>
    /\ hpc = <<>>
    /\ pollQ = <<>>
    /\ lock_locked = [s \in Sides |-> FALSE]
    /\ lock_waiters = [s \in Sides |-> <<>>]
    /\ intents = <<>>
    /\ orders_vars = [s \in Sides |-> [limit |-> EmptyDict, trigger |-> EmptyDict]]
    /\ copy_pvs = EmptyDict
    /\ csLog = [s \in Sides |-> <<>>]
    /\ restLog = <<>>
    /\ log_events = <<>>
    /\ ovLog = <<>>
    /\ last_error = "None"
    /\ last_error_ts = NoneNum

NextExec ==
    \/ FanOut
    \/ PollWake
    \/ PollTimeout
    \/ SessionClose
    \/ SessionReopen
    \/ LockGranted
    \/ DelayDone
    \/ RestReturn

SpecExec == InitExec /\ [][NextExec]_vars

\* the executor fed with one event for each of its order paths, the session
\* staying open: a limit order placed and a market order filled on LONG
\* (ordinary_executor_), a trigger order filled on SHORT (trigger_executor_)
\* and a market close (close_executor_)
OrderFrames ==
    {OrderFrame("L1", 1, 2), OrderFrame("M1", 1, 3), OrderFrame("T1", 3, 3),
     OrderFrame("M1", 4, 3)}
OrderEvents == {TranslatorOutput(f)[1] : f \in OrderFrames}

FanOutOrders == FanOutOf(OrderEvents)

NextExecOrders ==
    \/ FanOutOrders
    \/ LockGranted
    \/ DelayDone
    \/ RestReturn

SpecExecOrders == InitExec /\ [][NextExecOrders]_vars

\* =====================================================================
\* b_network : NetworkManager.notify_session_failure under concurrent callers
\* =====================================================================
\* calls of notify_session_failure in one run
MaxCalls == 3

PING_FAIL_THRESHOLD == 3

NetState ==
    [session |-> session, _recreating |-> _recreating, recreate_lock |-> recreate_lock,
     notify_calls |-> notify_calls]

SetNetState(x) ==
    /\ session' = x.session
    /\ _recreating' = x._recreating
    /\ recreate_lock' = x.recreate_lock
    /\ notify_calls' = x.notify_calls

\* the end of "async with self._recreate_lock": the first queued call gets
\* the lock
ReleaseRecreateLock(x, c) ==
    IF x.recreate_lock.waiters = <<>>
    THEN [x EXCEPT !.notify_calls[c].pc = "done", !.recreate_lock.locked = FALSE]
    ELSE [x EXCEPT !.notify_calls[c].pc = "done",
                   !.notify_calls[Head(x.recreate_lock.waiters)].pc = "granted",
                   !.recreate_lock.waiters = Tail(@)]

\* session = None; initialize_session (it creates the ClientSession without
\* awaiting); finally: _recreating = False; the lock is released
FinishRecreate(x, c) ==
    ReleaseRecreateLock([x EXCEPT !.session = "open", !._recreating = FALSE,
                                  !.notify_calls[c].cycled = TRUE], c)

\* the body of notify_session_failure under the lock, up to its first await
RecreateBody(x, c) ==
    IF x._recreating THEN ReleaseRecreateLock(x, c)
    ELSE LET x1 == [x EXCEPT !._recreating = TRUE]
         IN  IF x1.session = "open"
             THEN [x1 EXCEPT !.notify_calls[c].pc = "closing",
                             !.notify_calls[c].cycled = TRUE]
             ELSE FinishRecreate(x1, c)

\* notify_session_failure is entered: the call takes the lock when it is
\* free and nobody is queued, and waits for it otherwise; overlapped: a
\* recreate was in progress when the call was made
EnterNotify(x) ==
    LET c == Len(x.notify_calls) + 1
        x0 == [x EXCEPT !.notify_calls =
                  Append(@, [pc |-> "wait", overlapped |-> x._recreating,
                             cycled |-> FALSE])]
    IN  IF ~x.recreate_lock.locked /\ x.recreate_lock.waiters = <<>>
        THEN RecreateBody([x0 EXCEPT !.recreate_lock.locked = TRUE], c)
        ELSE [x0 EXCEPT !.recreate_lock.waiters = Append(@, c)]

\* a task that found the session failing calls notify_session_failure
NotifyCall ==
    /\ Len(notify_calls) < MaxCalls
    /\ SetNetState(EnterNotify(NetState))
    /\ UNCHANGED <<_ping_failures, _degraded, ping_loop>>
    /\ UNCHANGED nonNetVars

\* a _handle_ping_failure that leaves the counter at the threshold when it
\* marks the session degraded
PingFailedKeepCount ==
    /\ ping_loop.pc \in {"interval", "retry"}
    /\ IF _ping_failures + 1 >= PING_FAIL_THRESHOLD
       THEN /\ Len(notify_calls) < MaxCalls
            /\ _degraded' = TRUE
            /\ _ping_failures' = _ping_failures + 1
            /\ ping_loop' = [pc |-> "notify", call |-> Len(notify_calls) + 1]
            /\ SetNetState(EnterNotify(NetState))
       ELSE /\ _ping_failures' = _ping_failures + 1
            /\ ping_loop' = [pc |-> "retry", call |-> 0]
            /\ UNCHANGED <<session, _recreating, recreate_lock, notify_calls, _degraded>>
    /\ UNCHANGED nonNetVars

\* _handle_ping_failure, one turn of its loop: the failure is counted; at
\* the threshold the session is marked degraded and notify_session_failure
\* is called, otherwise the ping is tried again after PING_RETRY_DELAY
PingFailed ==
    /\ ping_loop.pc \in {"interval", "retry"}
    /\ IF _ping_failures + 1 >= PING_FAIL_THRESHOLD
       THEN /\ Len(notify_calls) < MaxCalls
            /\ _degraded' = TRUE
            /\ _ping_failures' = 0
            /\ ping_loop' = [pc |-> "notify", call |-> Len(notify_calls) + 1]
            /\ SetNetState(EnterNotify(NetState))
       ELSE /\ _ping_failures' = _ping_failures + 1
            /\ ping_loop' = [pc |-> "retry", call |-> 0]
            /\ UNCHANGED <<session, _recreating, recreate_lock, notify_calls, _degraded>>
    /\ UNCHANGED nonNetVars

\* a ping came back with status 200
PingOk ==
    /\ ping_loop.pc \in {"interval", "retry"}
    /\ session = "open"
    /\ _ping_failures' = 0
    /\ _degraded' = FALSE
    /\ ping_loop' = [pc |-> "interval", call |-> 0]
    /\ UNCHANGED <<session, _recreating, recreate_lock, notify_calls>>
    /\ UNCHANGED nonNetVars

\* the ping task's call of notify_session_failure has returned
PingNotified ==
    /\ ping_loop.pc = "notify"
    /\ notify_calls[ping_loop.call].pc = "done"
    /\ ping_loop' = [pc |-> "interval", call |-> 0]
    /\ UNCHANGED <<session, _recreating, recreate_lock, notify_calls, _ping_failures,
                   _degraded>>
    /\ UNCHANGED nonNetVars

\* a call that was queued on the lock gets it and runs the body
NotifyGranted ==
    /\ \E c \in DOMAIN notify_calls :
         /\ notify_calls[c].pc = "granted"
         /\ SetNetState(RecreateBody(NetState, c))
    /\ UNCHANGED <<_ping_failures, _degraded, ping_loop>>
    /\ UNCHANGED nonNetVars

\* the close of the old session returned, or its 3 s ran out
CloseReturn ==
    /\ \E c \in DOMAIN notify_calls :
         /\ notify_calls[c].pc = "closing"
         /\ SetNetState(FinishRecreate(NetState, c))
    /\ UNCHANGED <<_ping_failures, _degraded, ping_loop>>
    /\ UNCHANGED nonNetVars

InitNet ==
    /\ MasterRunning
    /\ pos_vars_root = EmptyDict
    /\ ExecIdle
    /\ RefreshIdle
    /\ NetIdle
    /\ ManualIdle
    /\ MonitorIdle
    /\ LifeIdle
    /\ ClassifyIdle
    /\ StreamIdle
    /\ CacheIdle
    /\ ClientIdle
    /\ ClampIdle
    /\ TaskIdle

NextNet ==
    \/ NotifyCall
    \/ PingFailed
    \/ PingOk
    \/ PingNotified
    \/ NotifyGranted
    \/ CloseReturn

SpecNet == InitNet /\ [][NextNet]_vars

\* =====================================================================
\* COPY.cmd_ / COPY.copy_ / COPY.exequter_ : the manual close, from the
\* CLOSE button to the REST calls of every follower it reaches
\* =====================================================================
\* the CLOSE button is pressed again while fewer sub-event tasks than this
\* were created in the run
MaxSubTasks == 2

\* a follower PV the monitor filled from an exchange position
OpenPV ==
    [base_template EXCEPT !.in_position = TRUE, !.qty = 2, !.entry_price = 100,
                          !.avg_price = 100, !.leverage = 10, !.margin_mode = 1]
PvChoices == {base_template, OpenPV}

\* orders_vars[symbol][side] of a follower: nothing recorded, a limit order,
\* a limit and a trigger order, a limit order the exchange gave no id for
NoOrders == [limit |-> EmptyDict, trigger |-> EmptyDict]
OrderRec(copy_oid) ==
    [copy_order_id |-> copy_oid, price |-> 100, qty |-> 2, status |-> "OPEN"]
SideRootChoices ==
    {NoOrders,
     [limit |-> DictSet(EmptyDict, "L1", OrderRec("c1")), trigger |-> EmptyDict],
     [limit |-> DictSet(EmptyDict, "L1", OrderRec("c1")),
      trigger |-> DictSet(EmptyDict, "T1", OrderRec("c2"))],
     [limit |-> DictSet(EmptyDict, "L1", OrderRec("")), trigger |-> EmptyDict]}

\* the READY runtimes of the run; follower 1 has orders recorded on LONG
RuntimeChoices(cid) ==
    {[position_vars |-> pvs,
      orders_vars |-> [s \in Sides |-> IF s = "LONG" /\ cid = 1 THEN sr ELSE NoOrders]] :
        pvs \in [Sides -> PvChoices], sr \in SideRootChoices}

\* the ids the CLOSE button hands to on_close (parse_id_range gives each id
\* once); on_close itself accepts any list
CloseArgs == {<<0>>, <<1>>, <<0, 2>>, <<1, 2>>}

\* copy_configs of the followers: plain copy, sized copy
ManualCfg(cid) ==
    IF cid = 1
    THEN [coef |-> 100, max_position_size |-> 0, leverage |-> NoneNum,
          margin_mode |-> NoneNum, delay_ms |-> <<100, 300>>]
    ELSE [coef |-> 50, max_position_size |-> 30, leverage |-> NoneNum,
          margin_mode |-> NoneNum, delay_ms |-> <<0, 0>>]

ManualState ==
    [copy_runtime_states |-> copy_runtime_states, sub_tasks |-> sub_tasks,
     manual_rest |-> manual_rest]

SetManualState(x) ==
    /\ copy_runtime_states' = x.copy_runtime_states
    /\ sub_tasks' = x.sub_tasks
    /\ manual_rest' = x.manual_rest

\* CmdDestrib.on_close: "ids = [cid for cid in ids if cid != 0]"
WithoutMaster(ids) == SelectSeq(ids, LAMBDA cid : cid # 0)

\* the test of _expand_manual_close passing every PV
ExpandableAlways(pv) == TRUE

\* the test of _expand_manual_close on a PV
Expandable(pv) == pv.in_position /\ pv.qty # NoneNum /\ pv.qty > 0

\* the sub-event of _expand_manual_close for one PV
ManualSub(cid, symbol, pos_side, pv) ==
    [event |-> "sell", method |-> "market", symbol |-> symbol, pos_side |-> pos_side,
     closed |-> TRUE, sig_type |-> "manual",
     payload |-> [order_id |-> "", qty |-> pv.qty, price |-> NoneNum,
                  leverage |-> pv.leverage, open_type |-> pv.margin_mode,
                  reduce_only |-> TRUE, tp_price |-> NoneNum, sl_price |-> NoneNum],
     _cid |-> cid]

\* the order position_vars[symbol] lists its sides in
SideOrder == <<"LONG", "SHORT">>

\* _expand_manual_close, the inner loops for one cid
ExpandCid(rts, cid) ==
    IF cid \notin DOMAIN rts THEN <<>>
    ELSE LET pvs == rts[cid].position_vars
             sides == SelectSeq(SideOrder, LAMBDA s : Expandable(pvs[s]))
         IN  [i \in 1..Len(sides) |-> ManualSub(cid, "BTC_USDT", sides[i], pvs[sides[i]])]

\* CopyDestrib._expand_manual_close over mc.cmd_ids
RECURSIVE _expand_manual_close(_, _)
_expand_manual_close(rts, ids) ==
    IF ids = <<>> THEN <<>>
    ELSE ExpandCid(rts, Head(ids)) \o _expand_manual_close(rts, Tail(ids))

NewSubTask(sub) == [mev |-> sub, pc |-> "new", intent |-> NoIntent, res |-> ""]

SameKey(a, b) == a.mev._cid = b.mev._cid /\ a.mev.pos_side = b.mev.pos_side

\* side_root["_lock"] is held by a task inside "async with lock"
ManualLockHeld(x, t) ==
    \E u \in DOMAIN x.sub_tasks :
       SameKey(x.sub_tasks[u], x.sub_tasks[t]) /\ x.sub_tasks[u].pc \in {"close_rest", "cancel_rest"}

\* tasks queued on side_root["_lock"] before task t
ManualWaitersBefore(x, t) ==
    {u \in DOMAIN x.sub_tasks :
       SameKey(x.sub_tasks[u], x.sub_tasks[t]) /\ x.sub_tasks[u].pc = "wait_lock" /\ u # t
         /\ (x.sub_tasks[t].pc = "new" \/ u < t)}

\* handle_copy_event inside the lock up to the REST call of close_executor_
ManualEnterCS(x, t, root) ==
    LET mev == x.sub_tasks[t].mev
        cid == mev._cid
        copy_pv == x.copy_runtime_states[cid].position_vars[mev.pos_side]
        spec == DictGet(DictGet(DictGet(root, "position_vars", EmptyDict),
                                mev.symbol, EmptyDict), "spec", EmptyDict)
        intent == build(ManualCfg(cid), mev, copy_pv, spec)
    IN  IF intent = NoIntent
        THEN [x EXCEPT !.sub_tasks[t].pc = "done", !.sub_tasks[t].res = "no_intent"]
        ELSE [x EXCEPT !.sub_tasks[t].pc = "close_rest", !.sub_tasks[t].intent = intent,
                       !.manual_rest = @ \cup {[task |-> t, kind |-> "order",
                                                market_type |-> "MARKET",
                                                symbol |-> intent.symbol,
                                                side |-> intent.side,
                                                position_side |-> intent.position_side,
                                                contracts |-> intent.contracts]}]

\* the copy order ids close_executor_ collects from one map of side_root
RecordedIds(m) == {m[k].copy_order_id : k \in {j \in DOMAIN m : m[j].copy_order_id # ""}}

\* close_executor_ after make_order returned
AfterManualClose(x, t, success) ==
    LET mev == x.sub_tasks[t].mev
        side_root == x.copy_runtime_states[mev._cid].orders_vars[mev.pos_side]
        limit_ids == RecordedIds(side_root.limit)
        trigger_ids == RecordedIds(side_root.trigger)
    IN  IF ~success
        THEN [x EXCEPT !.sub_tasks[t].pc = "done", !.sub_tasks[t].res = "close_failed"]
        ELSE IF mev.sig_type # "manual" \/ (limit_ids = {} /\ trigger_ids = {})
        THEN [x EXCEPT !.sub_tasks[t].pc = "done", !.sub_tasks[t].res = "closed"]
        ELSE [x EXCEPT !.sub_tasks[t].pc = "cancel_rest",
                       !.manual_rest = @ \cup {[task |-> t, kind |-> "cancel_bulk",
                                                symbol |-> mev.symbol,
                                                limit_order_ids |-> limit_ids,
                                                trigger_order_ids |-> trigger_ids]}]

\* close_executor_ clearing the two maps whatever cancel_orders_bulk answered
AfterBulkCancelClearAlways(x, t, success) ==
    LET mev == x.sub_tasks[t].mev
    IN  [x EXCEPT !.sub_tasks[t].pc = "done",
                  !.sub_tasks[t].res = IF success THEN "cancelled" ELSE "cancel_failed",
                  !.copy_runtime_states[mev._cid].orders_vars[mev.pos_side] = NoOrders]

\* close_executor_ after cancel_orders_bulk returned
AfterBulkCancel(x, t, success) ==
    LET mev == x.sub_tasks[t].mev
    IN  IF success
        THEN [x EXCEPT !.sub_tasks[t].pc = "done", !.sub_tasks[t].res = "cancelled",
                       !.copy_runtime_states[mev._cid].orders_vars[mev.pos_side] = NoOrders]
        ELSE [x EXCEPT !.sub_tasks[t].pc = "done", !.sub_tasks[t].res = "cancel_failed"]

\* the CLOSE button: on_close runs to its end. The button is throttled by
\* CMD_TTL and signal_loop is parked on out_queue.get, so the event of the
\* call before has been taken off the queue
OnClose ==
    /\ Len(sub_tasks) < MaxSubTasks
    /\ manual_queue = <<>>
    /\ ~cmd_state.stop_flag
    /\ \E arg \in CloseArgs :
         LET ids == WithoutMaster(arg)
         IN  IF ids = <<>>
             THEN UNCHANGED <<cmd_ids, manual_queue>>
             ELSE /\ cmd_ids' = ids
                  /\ manual_queue' = IF payload.exists
                                     THEN Append(manual_queue,
                                                 [sig_type |-> "manual", ids |-> arg])
                                     ELSE manual_queue
    /\ UNCHANGED <<copy_runtime_states, sub_tasks, manual_rest>>
    /\ UNCHANGED nonManualVars

\* events of manual closes waiting in out_queue at one time
MaxQueued == 2

\* on_close runs while the event of an earlier call is still in out_queue (the
\* event loop was held up for longer than CMD_TTL between the two presses):
\* mc.cmd_ids is replaced by the ids of this call
OnCloseQueued ==
    /\ Len(sub_tasks) < MaxSubTasks
    /\ manual_queue # <<>>
    /\ Len(manual_queue) < MaxQueued
    /\ ~cmd_state.stop_flag
    /\ \E arg \in CloseArgs :
         LET ids == WithoutMaster(arg)
         IN  /\ ids # <<>>
             /\ cmd_ids' = ids
             /\ manual_queue' = IF payload.exists
                                THEN Append(manual_queue,
                                            [sig_type |-> "manual", ids |-> arg])
                                ELSE manual_queue
    /\ UNCHANGED <<copy_runtime_states, sub_tasks, manual_rest>>
    /\ UNCHANGED nonManualVars

\* signal_loop takes the manual event off out_queue, creates one task per
\* expanded event and clears mc.cmd_ids
ExpandManual ==
    /\ manual_queue # <<>>
    /\ LET expanded == _expand_manual_close(copy_runtime_states, cmd_ids)
       IN  sub_tasks' = sub_tasks \o [i \in 1..Len(expanded) |-> NewSubTask(expanded[i])]
    /\ manual_queue' = Tail(manual_queue)
    /\ cmd_ids' = <<>>
    /\ UNCHANGED <<copy_runtime_states, manual_rest>>
    /\ UNCHANGED nonManualVars

\* _execute_signal of a sub-event runs to its first await; the runtime is
\* READY, its session open
RunSubTask ==
    /\ \E t \in DOMAIN sub_tasks :
         /\ sub_tasks[t].pc = "new"
         /\ LET x == ManualState
            IN  IF sub_tasks[t].mev._cid \notin DOMAIN copy_runtime_states
                THEN SetManualState([x EXCEPT !.sub_tasks[t].pc = "done",
                                              !.sub_tasks[t].res = "no_runtime"])
                ELSE IF ManualLockHeld(x, t) \/ ManualWaitersBefore(x, t) # {}
                THEN SetManualState([x EXCEPT !.sub_tasks[t].pc = "wait_lock"])
                ELSE SetManualState(ManualEnterCS(x, t, pos_vars_root))
    /\ UNCHANGED <<cmd_ids, manual_queue>>
    /\ UNCHANGED nonManualVars

\* the task the lock was handed to runs on
ManualLockGranted ==
    /\ \E t \in DOMAIN sub_tasks :
         /\ sub_tasks[t].pc = "wait_lock"
         /\ ~ManualLockHeld(ManualState, t)
         /\ ManualWaitersBefore(ManualState, t) = {}
         /\ SetManualState(ManualEnterCS(ManualState, t, pos_vars_root))
    /\ UNCHANGED <<cmd_ids, manual_queue>>
    /\ UNCHANGED nonManualVars

\* make_order of a close returns
ManualCloseReturn ==
    /\ \E t \in DOMAIN sub_tasks : \E success \in BOOLEAN :
         /\ sub_tasks[t].pc = "close_rest"
         /\ SetManualState(AfterManualClose(ManualState, t, success))
    /\ UNCHANGED <<cmd_ids, manual_queue>>
    /\ UNCHANGED nonManualVars

\* cancel_orders_bulk returns
BulkCancelReturn ==
    /\ \E t \in DOMAIN sub_tasks : \E success \in BOOLEAN :
         /\ sub_tasks[t].pc = "cancel_rest"
         /\ SetManualState(AfterBulkCancel(ManualState, t, success))
    /\ UNCHANGED <<cmd_ids, manual_queue>>
    /\ UNCHANGED nonManualVars

\* a running master, some followers READY with positions and orders
InitManual ==
    /\ MasterRunning
    /\ pos_vars_root = set_pos_defaults(EmptyDict, "BTC_USDT", "LONG")
    /\ ExecIdle
    /\ RefreshIdle
    /\ NetIdle
    /\ MonitorIdle
    /\ LifeIdle
    /\ ClassifyIdle
    /\ StreamIdle
    /\ CacheIdle
    /\ ClientIdle
    /\ ClampIdle
    /\ TaskIdle
    /\ \E D \in SUBSET Cids :
         copy_runtime_states \in {f \in [D -> UNION {RuntimeChoices(c) : c \in D}] :
                                    \A c \in D : f[c] \in RuntimeChoices(c)}
    /\ cmd_ids = <<>>
    /\ manual_queue = <<>>
    /\ sub_tasks = <<>>
    /\ manual_rest = {}

NextManual ==
    \/ OnClose
    \/ ExpandManual
    \/ RunSubTask
    \/ ManualLockGranted
    \/ ManualCloseReturn
    \/ BulkCancelReturn

SpecManual == InitManual /\ [][NextManual]_vars

\* the manual close with on_close calls that overtake the dispatcher
NextManualRace ==
    \/ OnClose
    \/ OnCloseQueued
    \/ ExpandManual
    \/ RunSubTask
    \/ ManualLockGranted
    \/ ManualCloseReturn
    \/ BulkCancelReturn

SpecManualRace == InitManual /\ [][NextManualRace]_vars

\* =====================================================================
\* COPY.pv_fsm_ / COPY.copy_ : PosMonitorFSM, RefreshCoordinator,
\* PreparePnlReport. Time is counted in ticks of TickMs milliseconds: a
\* tick is the time after which a _run that started has reached its deadline.
\* =====================================================================
MaxBursts == 2
ttl_ms == 5000
TickMs == ttl_ms
IS_REPORT == TRUE
\* volumes a follower account can hold on one side
HoldVols == {0, 1}
\* the position sides the master trades in the run
TradedSides == {"LONG"}

\* dict.update and dict.pop
Update(pv, upd) ==
    [k \in (DOMAIN pv) \cup (DOMAIN upd) |-> IF k \in DOMAIN upd THEN upd[k] ELSE pv[k]]
DictPop(pv, key) == [k \in (DOMAIN pv) \ {key} |-> pv[k]]

\* what get_open_positions holds for an account: a holding record (state 1)
\* for a side with volume, a closed record (state 3) for a side without
OpenPositions(ex) ==
    {[state |-> IF ex[s] > 0 THEN 1 ELSE 3, symbol |-> "BTC_USDT",
      positionType |-> IF s = "LONG" THEN 1 ELSE 2, holdVol |-> ex[s],
      openAvgPrice |-> 100, holdAvgPrice |-> 100, leverage |-> 10, openType |-> 1] :
        s \in Sides}

\* MexcClient.fetch_positions: the data of a successful non-empty response,
\* the empty list otherwise
fetch_positions(ex, success) == IF success THEN OpenPositions(ex) ELSE {}

NoInfo == [symbol |-> ""]

\* PosMonitorFSM.unpack
unpack(position) ==
    IF position.state # 1 THEN NoInfo
    ELSE LET vol == Abs(safe_float(position.holdVol))
         IN  IF position.symbol = "" \/ vol <= 0 THEN NoInfo
             ELSE IF position.positionType \notin {1, 2} THEN NoInfo
             ELSE [symbol |-> position.symbol,
                   pos_side |-> IF position.positionType = 1 THEN "LONG" ELSE "SHORT",
                   qty |-> vol, entry_price |-> safe_float(position.openAvgPrice),
                   avg_price |-> safe_float(position.holdAvgPrice),
                   leverage |-> position.leverage, margin_mode |-> position.openType]

\* the dict "active" of refresh: (symbol, pos_side) -> info
ActiveOf(positions) ==
    LET infos == {unpack(p) : p \in positions} \ {NoInfo}
    IN  [k \in {<<i.symbol, i.pos_side>> : i \in infos} |->
            CHOOSE i \in infos : <<i.symbol, i.pos_side>> = k]

\* refresh, position not found, leaving qty and the rest of the PV as they were
ClosePVKeepQty(pv) ==
    Update(pv, [in_position |-> FALSE, _entry_ts |-> DictGet(pv, "_entry_ts", NoneNum),
                _state |-> "CLOSED_PENDING"])

\* refresh, position not found: the PV is reset to the template
ClosePV(pv) ==
    Update(Update(pv, base_template),
           [_entry_ts |-> DictGet(pv, "_entry_ts", NoneNum), _state |-> "CLOSED_PENDING"])

\* the body of the "apply snapshot" loop of refresh for one PV
RefreshPV(pv, key, active, now_ts) ==
    LET was_in_position == DictGet(pv, "in_position", FALSE)
        found == key \in DOMAIN active
        info == active[key]
    IN  IF found /\ info.qty > 0 /\ ~was_in_position
        THEN Update(pv, [in_position |-> TRUE, qty |-> info.qty,
                         entry_price |-> info.entry_price, avg_price |-> info.avg_price,
                         leverage |-> info.leverage, margin_mode |-> info.margin_mode,
                         _entry_ts |-> now_ts])
        ELSE IF found /\ info.qty > 0 /\ was_in_position
        THEN Update(pv, [in_position |-> TRUE, qty |-> info.qty,
                         avg_price |-> info.avg_price, leverage |-> info.leverage,
                         margin_mode |-> info.margin_mode])
        ELSE IF was_in_position THEN ClosePV(pv)
        ELSE pv

\* PosMonitorFSM.refresh once fetch_positions has returned positions
refresh(pvs, positions, now_ts) ==
    [s \in DOMAIN pvs |-> RefreshPV(pvs[s], <<"BTC_USDT", s>>, ActiveOf(positions), now_ts)]

\* snapshot_hash: the XOR of hash((symbol, side, qty)) over the PVs with a
\* qty; tuple hashes are taken as independent, so the XOR is held as the set
\* of the tuples that enter it (0 is the empty set)
snapshot_hash(pvs) ==
    {<<"BTC_USDT", s, pvs[s].qty>> : s \in {d \in DOMAIN pvs : DictGet(pvs[d], "qty", 0) # 0}}

\* the loop condition of _run without its deadline
KeepPollingNoDeadline(pending, elapsed_ms) == pending # {}

\* the loop condition of _run: while pending and now() - start_ts < ttl_ms
KeepPolling(pending, elapsed_ms) == pending # {} /\ elapsed_ms < ttl_ms

\* an _execute_signal task after its trigger call
DoneBurst == [pc |-> "done", side |-> "", monitors |-> {}]

\* an _execute_signal task that ended in its except clause
FailedBurst == [pc |-> "failed", side |-> "", monitors |-> {}]

\* _execute_signal / _broadcast_to_copies up to the REST calls: the pre-hash
\* of every enabled follower is recorded and its handle_copy_event runs; it
\* returns early (no session, a canceled event), or it registers the
\* follower's monitor, makes sure the PV of the key exists and issues its order
BurstStart ==
    /\ Len(bursts) < MaxBursts
    /\ \E side \in TradedSides : \E registering \in SUBSET Cids :
         /\ bursts' = Append(bursts, [pc |-> "gather", side |-> side,
                                      monitors |-> registering])
         /\ rt_pvs' = [c \in Cids |-> IF c \in registering
                                       THEN get_cid_symbol_pos(rt_pvs[c], side)
                                       ELSE rt_pvs[c]]
    /\ prev_hash' = [c \in Cids |-> snapshot_hash(rt_pvs[c])]
    /\ UNCHANGED <<clock, loop, stable_tasks>>
    /\ UNCHANGED nonRefreshVars

\* RefreshCoordinator.trigger: a task is made only if there is none or it is done
trigger(lp, monitors, now_ts) ==
    IF monitors # {} /\ ~lp.running
    THEN [running |-> TRUE, pc |-> "refresh", monitors |-> monitors, pending |-> monitors,
          refreshing |-> monitors, scheduled |-> {}, start_ts |-> now_ts]
    ELSE lp

\* the try block of _execute_signal after the fan-out: the gather hands on
\* the first exception of a handler, the except clause logs it, and the call
\* of trigger is passed over
AfterFanOut(lp, monitors, raised, now_ts) ==
    IF raised THEN lp ELSE trigger(lp, monitors, now_ts)

\* the gather of _execute_signal is over: every REST call has returned and
\* trigger(local_monitors) is called, or the REST call of a follower that
\* had registered its monitor raised
BurstTrigger ==
    /\ \E b \in DOMAIN bursts : \E raised \in BOOLEAN :
         /\ bursts[b].pc = "gather"
         /\ raised => bursts[b].monitors # {}
         /\ bursts' = [bursts EXCEPT ![b] = IF raised THEN FailedBurst ELSE DoneBurst]
         /\ loop' = AfterFanOut(loop, bursts[b].monitors, raised, clock)
    /\ UNCHANGED <<rt_pvs, clock, prev_hash, stable_tasks>>
    /\ UNCHANGED nonRefreshVars

\* what the account of a follower can hold: side -> volume
Accounts == [Sides -> HoldVols]

\* safe_refresh of one pending follower returns: the positions were fetched
\* and applied ("data": what the account holds at that moment, "empty": the
\* empty list of a failed response), or refresh raised or ran into the
\* timeout ("raise")
RefreshReturn ==
    /\ loop.pc = "refresh"
    /\ \E c \in loop.refreshing : \E outcome \in {"data", "empty", "raise"} :
       \E ex \in Accounts :
         /\ loop' = [loop EXCEPT !.refreshing = @ \ {c}]
         /\ rt_pvs' = IF outcome = "raise" THEN rt_pvs
                      ELSE [rt_pvs EXCEPT
                              ![c] = refresh(@, fetch_positions(ex, outcome = "data"),
                                             clock)]
    /\ UNCHANGED <<clock, prev_hash, bursts, stable_tasks>>
    /\ UNCHANGED nonRefreshVars

\* the ids _run takes out of pending: the hash differs from the recorded one
OnStableIds(pending, pvs, prev) ==
    {c \in pending : c \in DOMAIN prev /\ snapshot_hash(pvs[c]) # prev[c]}

\* _run after the gather: the hash of every pending follower is compared
\* with its recorded one; the followers that differ leave pending and
\* on_stable is scheduled for them; then the loop sleeps
LoopCheck ==
    /\ loop.pc = "refresh"
    /\ loop.refreshing = {}
    /\ LET on_stable_ids == OnStableIds(loop.pending, rt_pvs, prev_hash)
           scheduled == IS_REPORT /\ on_stable_ids # {}
       IN  /\ loop' = [loop EXCEPT !.pending = @ \ on_stable_ids, !.pc = "sleep",
                                   !.scheduled = IF scheduled THEN @ \cup on_stable_ids
                                                 ELSE @]
           /\ prev_hash' = [c \in DOMAIN prev_hash |->
                               IF c \in on_stable_ids THEN snapshot_hash(rt_pvs[c])
                               ELSE prev_hash[c]]
           /\ stable_tasks' = IF scheduled
                               THEN Append(stable_tasks, [pc |-> "new", ids |-> on_stable_ids,
                                                          items |-> {}])
                               ELSE stable_tasks
    /\ UNCHANGED <<rt_pvs, clock, bursts>>
    /\ UNCHANGED nonRefreshVars

\* the sleep of _run is over and the loop condition is evaluated: another
\* round of refreshes, or _run returns and the task is done. The timer of the
\* sleep fires after the tasks made before it have had their first run
LoopWake ==
    /\ loop.pc = "sleep"
    /\ \A i \in DOMAIN stable_tasks : stable_tasks[i].pc # "new"
    /\ IF KeepPolling(loop.pending, (clock - loop.start_ts) * TickMs)
       THEN loop' = [loop EXCEPT !.pc = "refresh", !.refreshing = loop.pending]
       ELSE loop' = NoLoop
    /\ UNCHANGED <<rt_pvs, clock, prev_hash, bursts, stable_tasks>>
    /\ UNCHANGED nonRefreshVars

\* time passes while _run sleeps
Tick ==
    /\ loop.pc = "sleep"
    /\ (clock - loop.start_ts) * TickMs < ttl_ms
    /\ clock' = clock + 1
    /\ UNCHANGED <<rt_pvs, prev_hash, bursts, loop, stable_tasks>>
    /\ UNCHANGED nonRefreshVars

\* the PVs assum_positions collects for ids: those in CLOSED_PENDING
ClosedPendingItems(pvs, ids) ==
    {x \in ids \X Sides :
        /\ x[2] \in DOMAIN pvs[x[1]]
        /\ DictGet(pvs[x[1]][x[2]], "_state", "") = "CLOSED_PENDING"}

RECURSIVE ItemsSeq(_)
ItemsSeq(S) ==
    IF S = {} THEN <<>>
    ELSE LET x == CHOOSE y \in S : TRUE IN <<x>> \o ItemsSeq(S \ {x})

\* step 4 of assum_positions for the collected items: a batch hit reports
\* and pops _entry_ts; the fallback pv_cleanup reports and pops only when
\* _entry_ts is valid
RECURSIVE ApplyItems(_, _, _)
ApplyItems(items, hits, st) ==
    IF items = <<>> THEN st
    ELSE LET c == Head(items)[1]
             side == Head(items)[2]
             pv == st.pvs[c][side]
             entry_ts == DictGet(pv, "_entry_ts", NoneNum)
             res == [cid |-> c, symbol |-> "BTC_USDT", pos_side |-> side,
                     entry_ts |-> entry_ts]
             reports == side \in hits \/ entry_ts # NoneNum
         IN  ApplyItems(Tail(items), hits,
                        IF reports
                        THEN [pvs |-> [st.pvs EXCEPT ![c][side] = DictPop(@, "_entry_ts")],
                              results |-> Append(st.results, res)]
                        ELSE st)

RemoveAt(seq, i) == SubSeq(seq, 1, i - 1) \o SubSeq(seq, i + 1, Len(seq))

\* an assum_positions that collects the CLOSED_PENDING PVs and leaves their
\* _state in place
OnStableCollectKeepState ==
    /\ \E i \in DOMAIN stable_tasks :
         LET items == ClosedPendingItems(rt_pvs, stable_tasks[i].ids)
             with_ts == {x \in items :
                           DictGet(rt_pvs[x[1]][x[2]], "_entry_ts", NoneNum) # NoneNum}
         IN  /\ stable_tasks[i].pc = "new"
             /\ rt_pvs' = rt_pvs
             /\ stable_tasks' = IF with_ts = {} THEN RemoveAt(stable_tasks, i)
                                ELSE [stable_tasks EXCEPT ![i].pc = "fetch",
                                                          ![i].items = items]
    /\ UNCHANGED <<clock, prev_hash, bursts, loop>>
    /\ UNCHANGED nonRefreshVars

\* an on_stable task starts: assum_positions collects the CLOSED_PENDING PVs
\* of its ids, popping _state, and returns if there is none or none has an
\* _entry_ts; otherwise it waits for the batch of realized PnL
OnStableCollect ==
    /\ \E i \in DOMAIN stable_tasks :
         LET items == ClosedPendingItems(rt_pvs, stable_tasks[i].ids)
             with_ts == {x \in items :
                           DictGet(rt_pvs[x[1]][x[2]], "_entry_ts", NoneNum) # NoneNum}
         IN  /\ stable_tasks[i].pc = "new"
             /\ rt_pvs' = [c \in Cids |->
                             [s \in DOMAIN rt_pvs[c] |->
                                IF <<c, s>> \in items THEN DictPop(rt_pvs[c][s], "_state")
                                ELSE rt_pvs[c][s]]]
             /\ stable_tasks' = IF with_ts = {} THEN RemoveAt(stable_tasks, i)
                                ELSE [stable_tasks EXCEPT ![i].pc = "fetch",
                                                          ![i].items = items]
    /\ UNCHANGED <<clock, prev_hash, bursts, loop>>
    /\ UNCHANGED nonRefreshVars

\* the batch of realized PnL is there (hits: the sides it has a key for):
\* the results are applied and assum_positions returns its records
OnStableApply ==
    /\ \E i \in DOMAIN stable_tasks : \E hits \in SUBSET Sides :
         LET st == ApplyItems(ItemsSeq(stable_tasks[i].items), hits,
                              [pvs |-> rt_pvs, results |-> <<>>])
         IN  /\ stable_tasks[i].pc = "fetch"
             /\ rt_pvs' = st.pvs
             /\ stable_tasks' = RemoveAt(stable_tasks, i)
    /\ UNCHANGED <<clock, prev_hash, bursts, loop>>
    /\ UNCHANGED nonRefreshVars

\* READY followers under a running master, before the first MasterEvent
InitRefresh ==
    /\ MasterRunning
    /\ pos_vars_root = EmptyDict
    /\ ExecIdle
    /\ RefreshIdle
    /\ NetIdle
    /\ ManualIdle
    /\ MonitorIdle
    /\ LifeIdle
    /\ ClassifyIdle
    /\ StreamIdle
    /\ CacheIdle
    /\ ClientIdle
    /\ ClampIdle
    /\ TaskIdle

NextRefresh ==
    \/ BurstStart
    \/ BurstTrigger
    \/ RefreshReturn
    \/ LoopCheck
    \/ LoopWake
    \/ Tick
    \/ OnStableCollect
    \/ OnStableApply

SpecRefresh == InitRefresh /\ [][NextRefresh]_vars

\* the event loop runs every task that can run: refreshes return within the
\* timeout of safe_refresh and sleeps end; every sleep of _run lasts at least
\* its delay, so a loop that keeps sleeping sees the time pass
SpecRefreshFair ==
    /\ SpecRefresh
    /\ WF_vars(RefreshReturn)
    /\ WF_vars(LoopCheck)
    /\ WF_vars(LoopWake)
    /\ WF_vars(OnStableCollect)
    /\ SF_vars(Tick)

\* =====================================================================
\* COPY.pv_fsm_ / API.MX.client : one PosMonitorFSM.refresh after another,
\* each with what get_open_positions answered
\* =====================================================================
\* calls of refresh in one run
MaxRefreshes == 3

\* what get_open_positions can do: answer with data, answer nothing, answer
\* with success false, raise
ResponseKinds == {"data", "null", "error", "raise"}

\* now() at the k-th refresh
NowAt(k) == k

\* the executor reaches a side for the first time: get_cid_symbol_pos puts
\* the template PV into position_vars
MonitorEnsurePV ==
    /\ \E s \in Sides :
         /\ s \notin DOMAIN monitor_pvs
         /\ monitor_pvs' = get_cid_symbol_pos(monitor_pvs, s)
    /\ UNCHANGED <<refresh_calls, last_response>>
    /\ UNCHANGED nonMonitorVars

\* refresh runs to its end: fetch_positions, then the snapshot is applied;
\* an exception of get_open_positions leaves refresh before it touched a PV
MonitorRefresh ==
    /\ refresh_calls < MaxRefreshes
    /\ \E kind \in ResponseKinds : \E ex \in Accounts :
         /\ last_response' = kind
         /\ monitor_pvs' = IF kind = "raise" THEN monitor_pvs
                           ELSE refresh(monitor_pvs, fetch_positions(ex, kind = "data"),
                                        NowAt(refresh_calls + 1))
    /\ refresh_calls' = refresh_calls + 1
    /\ UNCHANGED nonMonitorVars

InitMonitor ==
    /\ MasterRunning
    /\ pos_vars_root = EmptyDict
    /\ ExecIdle
    /\ RefreshIdle
    /\ NetIdle
    /\ ManualIdle
    /\ MonitorIdle
    /\ LifeIdle
    /\ ClassifyIdle
    /\ StreamIdle
    /\ CacheIdle
    /\ ClientIdle
    /\ ClampIdle
    /\ TaskIdle

NextMonitor ==
    \/ MonitorEnsurePV
    \/ MonitorRefresh

SpecMonitor == InitMonitor /\ [][NextMonitor]_vars

\* =====================================================================
\* COPY.state_ / main : the lifecycle of one follower runtime. activate_copy
\* and deactivate_copy come from the UI, CoreApp.shutdown from the end of
\* the application
\* =====================================================================
\* activate_copy and deactivate_copy calls in one run
MaxLifeTasks == 4

LifeState ==
    [init_state |-> init_state, _init_locks |-> _init_locks,
     lifecycle_tasks |-> lifecycle_tasks]

SetLifeState(x) ==
    /\ init_state' = x.init_state
    /\ _init_locks' = x._init_locks
    /\ lifecycle_tasks' = x.lifecycle_tasks

\* the end of "async with lock" of task t: the first queued task gets the lock
LifeRelease(x, t) ==
    IF x._init_locks.waiters = <<>>
    THEN [x EXCEPT !.lifecycle_tasks[t].pc = "done", !._init_locks.holder = 0]
    ELSE [x EXCEPT !.lifecycle_tasks[t].pc = "done",
                   !.lifecycle_tasks[Head(x._init_locks.waiters)].pc = "granted",
                   !._init_locks.holder = Head(x._init_locks.waiters),
                   !._init_locks.waiters = Tail(@)]

\* the caller of shutdown_runtime goes on after it returned
AfterShutdown(x, t) ==
    IF x.lifecycle_tasks[t].kind = "app"
    THEN [x EXCEPT !.lifecycle_tasks[t].pc = "done"]
    ELSE LifeRelease(x, t)

\* shutdown_runtime up to "await conn.shutdown_session()": the entry is
\* popped; without an entry it returns at once
shutdown_runtime(x, t) ==
    IF x.init_state = "none" THEN AfterShutdown(x, t)
    ELSE [x EXCEPT !.init_state = "none", !.lifecycle_tasks[t].pc = "shutting"]

\* _init_copy_runtime without an entry: the skeleton, the connector with its
\* session and ping loop, wait_for_session. It gives up at once under the
\* stop flag: the entry becomes FAILED and shutdown_runtime takes it away,
\* waiting for the session of the connector to close. None of the awaits on
\* the way to READY suspends the task
_init_copy_runtime(x, t, stop) ==
    IF stop
    THEN shutdown_runtime([x EXCEPT !.init_state = "FAILED"], t)
    ELSE LifeRelease([x EXCEPT !.init_state = "READY"], t)

\* the body of "async with lock" of activate_copy or deactivate_copy up to
\* its first suspension
LifeBody(x, t, stop) ==
    IF x.lifecycle_tasks[t].kind = "deactivate" THEN shutdown_runtime(x, t)
    ELSE IF x.init_state = "READY" THEN LifeRelease(x, t)
    ELSE _init_copy_runtime(x, t, stop)

\* a UI handler calls activate_copy or deactivate_copy; handlers start while
\* the application runs
LifeCall ==
    /\ Len(lifecycle_tasks) < MaxLifeTasks
    /\ ~_stop_flag
    /\ \E kind \in {"activate", "deactivate"} :
         LET t == Len(lifecycle_tasks) + 1
             x == [LifeState EXCEPT !.lifecycle_tasks =
                                      Append(@, [kind |-> kind, pc |-> "wait_lock",
                                                 ready_before |-> {}])]
         IN  IF _init_locks.holder = 0
             THEN SetLifeState(LifeBody([x EXCEPT !._init_locks.holder = t], t, _stop_flag))
             ELSE SetLifeState([x EXCEPT !._init_locks.waiters = Append(@, t)])
    /\ UNCHANGED _stop_flag
    /\ UNCHANGED nonLifeVars

\* the task the lock was handed to runs on
LifeLockGranted ==
    /\ \E t \in DOMAIN lifecycle_tasks :
         /\ lifecycle_tasks[t].pc = "granted"
         /\ SetLifeState(LifeBody(LifeState, t, _stop_flag))
    /\ UNCHANGED _stop_flag
    /\ UNCHANGED nonLifeVars

\* conn.shutdown_session returns to shutdown_runtime
ShutdownSessionReturn ==
    /\ \E t \in DOMAIN lifecycle_tasks :
         /\ lifecycle_tasks[t].pc = "shutting"
         /\ SetLifeState(AfterShutdown(LifeState, t))
    /\ UNCHANGED _stop_flag
    /\ UNCHANGED nonLifeVars

\* the tasks the lock was handed to that have not run yet
GrantedTasks(tasks) == {t \in DOMAIN tasks : tasks[t].pc = "granted"}

\* CoreApp.shutdown begins: the stop flag, then the wait for the spec task
\* of step 3, behind the tasks that are ready to run at that moment
AppShutdownStart ==
    /\ ~_stop_flag
    /\ _stop_flag' = TRUE
    /\ lifecycle_tasks' = Append(lifecycle_tasks,
                                 [kind |-> "app", pc |-> "stopping",
                                  ready_before |-> GrantedTasks(lifecycle_tasks)])
    /\ UNCHANGED <<init_state, _init_locks>>
    /\ UNCHANGED nonLifeVars

\* step 4 of CoreApp.shutdown takes the list of the runtimes; the follower
\* is the first of the list and shutdown_runtime is called for it, or the
\* runtimes of other followers are shut down first
AppShutdownList ==
    /\ \E t \in DOMAIN lifecycle_tasks :
         /\ lifecycle_tasks[t].pc = "stopping"
         /\ lifecycle_tasks[t].ready_before \cap GrantedTasks(lifecycle_tasks) = {}
         /\ IF init_state = "none"
            THEN SetLifeState([LifeState EXCEPT !.lifecycle_tasks[t].pc = "done"])
            ELSE \/ SetLifeState(shutdown_runtime(LifeState, t))
                 \/ SetLifeState([LifeState EXCEPT !.lifecycle_tasks[t].pc = "listed"])
    /\ UNCHANGED _stop_flag
    /\ UNCHANGED nonLifeVars

\* the loop of step 4 reaches the follower
AppShutdownCall ==
    /\ \E t \in DOMAIN lifecycle_tasks :
         /\ lifecycle_tasks[t].pc = "listed"
         /\ SetLifeState(shutdown_runtime(LifeState, t))
    /\ UNCHANGED _stop_flag
    /\ UNCHANGED nonLifeVars

InitLife ==
    /\ MasterRunning
    /\ pos_vars_root = EmptyDict
    /\ ExecIdle
    /\ RefreshIdle
    /\ NetIdle
    /\ ManualIdle
    /\ MonitorIdle
    /\ LifeIdle
    /\ ClassifyIdle
    /\ StreamIdle
    /\ CacheIdle
    /\ ClientIdle
    /\ ClampIdle
    /\ TaskIdle

NextLife ==
    \/ LifeCall
    \/ LifeLockGranted
    \/ ShutdownSessionReturn
    \/ AppShutdownStart
    \/ AppShutdownList
    \/ AppShutdownCall

SpecLife == InitLife /\ [][NextLife]_vars

\* =====================================================================
\* COPY.copy_ / main : the tasks the copy side creates and the set
\* mc.background_tasks that CoreApp.shutdown cancels
\* =====================================================================
\* tasks created in one run
MaxSpawned == 5

\* enabled followers with a runtime that one fan-out reaches
MaxFanOut == 2

\* asyncio.Task.done()
TaskDone(t) == spawned[t].pc \in {"done", "cancelled"}

\* asyncio.create_task: the new task is the last one of the list
NewTask(kind, parent) == [kind |-> kind, parent |-> parent, pc |-> "start"]

\* signal_loop takes a copy event off out_queue: the task of _execute_and_ack
\* is created, added to background_tasks and discards itself when done
SignalLoopCopyEvent ==
    /\ ~app_stopped
    /\ Len(spawned) < MaxSpawned
    /\ spawned' = Append(spawned, NewTask("event", 0))
    /\ background_tasks' = background_tasks \cup {Len(spawned) + 1}
    /\ UNCHANGED <<refresh_task, app_stopped>>
    /\ UNCHANGED nonTaskVars

\* _broadcast_to_copies: one task of handle_copy_event per enabled follower,
\* then the gather; without a follower _execute_signal goes on to its end
BroadcastToCopies ==
    /\ \E t \in DOMAIN spawned, n \in 0..MaxFanOut :
         /\ spawned[t].kind = "event"
         /\ spawned[t].pc = "start"
         /\ Len(spawned) + n <= MaxSpawned
         /\ IF n = 0
            THEN /\ spawned' = [spawned EXCEPT ![t].pc = "done"]
                 /\ background_tasks' = background_tasks \ {t}
            ELSE /\ spawned' = [spawned EXCEPT ![t].pc = "gather"]
                               \o [i \in 1..n |-> NewTask("follower", t)]
                 /\ UNCHANGED background_tasks
    /\ UNCHANGED <<refresh_task, app_stopped>>
    /\ UNCHANGED nonTaskVars

\* handle_copy_event of one follower returns
FollowerReturn ==
    /\ \E c \in DOMAIN spawned :
         /\ spawned[c].kind = "follower"
         /\ spawned[c].pc = "start"
         /\ spawned' = [spawned EXCEPT ![c].pc = "done"]
    /\ UNCHANGED <<background_tasks, refresh_task, app_stopped>>
    /\ UNCHANGED nonTaskVars

\* RefreshCoordinator.trigger: a task of _run unless one is running
TriggerCreatesTask(tasks, rtask, monitors) ==
    /\ monitors
    /\ (rtask = 0 \/ tasks[rtask].pc \in {"done", "cancelled"})

\* the gather of _broadcast_to_copies returns: local_monitors is non-empty
\* when a follower registered its monitor; the refresh is fired and forgotten,
\* the event task ends and its done-callback takes it out of the set
GatherReturn ==
    /\ \E t \in DOMAIN spawned, monitors \in BOOLEAN :
         /\ spawned[t].kind = "event"
         /\ spawned[t].pc = "gather"
         /\ \A c \in DOMAIN spawned : spawned[c].parent = t => TaskDone(c)
         /\ IF TriggerCreatesTask(spawned, refresh_task, monitors)
            THEN /\ Len(spawned) < MaxSpawned
                 /\ spawned' = Append([spawned EXCEPT ![t].pc = "done"],
                                      NewTask("refresh", 0))
                 /\ refresh_task' = Len(spawned) + 1
            ELSE /\ spawned' = [spawned EXCEPT ![t].pc = "done"]
                 /\ UNCHANGED refresh_task
         /\ background_tasks' = background_tasks \ {t}
    /\ UNCHANGED app_stopped
    /\ UNCHANGED nonTaskVars

\* one round of _run: followers that changed are handed to a task of
\* on_stable; the loop ends when nobody is pending or the ttl has passed
RefreshRound ==
    /\ \E r \in DOMAIN spawned, stable \in BOOLEAN, last \in BOOLEAN :
         /\ spawned[r].kind = "refresh"
         /\ spawned[r].pc = "start"
         /\ stable => Len(spawned) < MaxSpawned
         /\ stable \/ last
         /\ spawned' = [spawned EXCEPT ![r].pc = IF last THEN "done" ELSE "start"]
                       \o (IF stable THEN <<NewTask("on_stable", 0)>> ELSE <<>>)
    /\ UNCHANGED <<background_tasks, refresh_task, app_stopped>>
    /\ UNCHANGED nonTaskVars

\* the on_stable callback (PnL report) returns
OnStableReturn ==
    /\ \E s \in DOMAIN spawned :
         /\ spawned[s].kind = "on_stable"
         /\ spawned[s].pc = "start"
         /\ spawned' = [spawned EXCEPT ![s].pc = "done"]
    /\ UNCHANGED <<background_tasks, refresh_task, app_stopped>>
    /\ UNCHANGED nonTaskVars

\* Task.cancel() on the members of a set: a task waiting in a gather hands the
\* cancellation to the tasks it gathers
Cancelled(tasks, set) ==
    [t \in DOMAIN tasks |->
       IF tasks[t].pc \in {"done", "cancelled"} THEN tasks[t]
       ELSE IF t \in set \/ (tasks[t].parent \in set /\ tasks[tasks[t].parent].pc = "gather")
            THEN [tasks[t] EXCEPT !.pc = "cancelled"]
            ELSE tasks[t]]

\* CoreApp.shutdown, steps 1 and 2: stop_signal_loop, then every task of
\* mc.background_tasks is cancelled and awaited
ShutdownTasks ==
    /\ ~app_stopped
    /\ app_stopped' = TRUE
    /\ spawned' = Cancelled(spawned, background_tasks)
    /\ background_tasks' = {}
    /\ UNCHANGED refresh_task
    /\ UNCHANGED nonTaskVars

InitTasks ==
    /\ MasterRunning
    /\ pos_vars_root = EmptyDict
    /\ ExecIdle
    /\ RefreshIdle
    /\ NetIdle
    /\ ManualIdle
    /\ MonitorIdle
    /\ LifeIdle
    /\ ClassifyIdle
    /\ StreamIdle
    /\ CacheIdle
    /\ ClientIdle
    /\ ClampIdle
    /\ TaskIdle

NextTasks ==
    \/ SignalLoopCopyEvent
    \/ BroadcastToCopies
    \/ FollowerReturn
    \/ GatherReturn
    \/ RefreshRound
    \/ OnStableReturn
    \/ ShutdownTasks

SpecTasks == InitTasks /\ [][NextTasks]_vars

\* =====================================================================
\* COPY.state_ : _clamp_by_max_margin called for one order under several
\* values of max_position_size
\* =====================================================================
\* calls made with the same order
MaxClampCalls == 2

\* the instruments: one decimal and a step of 0.1 with contracts of 1 coin, or
\* whole contracts of 4 coins
ClampSpecs ==
    {[contract_precision |-> 1, contract_size |-> 1, vol_unit |-> 1],
     [contract_precision |-> 0, contract_size |-> 4, vol_unit |-> 10]}

\* master contracts 20.0 or 7.0, coef 0.5 or 1, rnd 100 or 80 percent; the
\* orders whose margin fits the 32-bit integers of the model checker
ClampArgs ==
    {a \in [contracts : {200, 70}, price : {100, 30}, leverage : {10, 3},
            coef : {50, 100}, rnd : {100, 80}, spec : ClampSpecs] :
       a.contracts * a.spec.contract_size * a.price * a.leverage <= 200000}

\* max_position_size as the UI stores it (float(raw)): 0 when unset, any sign
MaxMarginValues == {0 - 1500, 0, 500, 1500}

\* one call of the clamp with the order of this run
ClampCall ==
    /\ Len(clamp_calls) < MaxClampCalls
    /\ \E m \in MaxMarginValues :
         clamp_calls' = Append(clamp_calls,
             [max_margin |-> m,
              contracts |-> _clamp_by_max_margin(clamp_args.contracts, m, clamp_args.price,
                                                 clamp_args.leverage, clamp_args.coef,
                                                 clamp_args.rnd, clamp_args.spec)])
    /\ UNCHANGED clamp_args
    /\ UNCHANGED nonClampVars

InitClamp ==
    /\ MasterRunning
    /\ pos_vars_root = EmptyDict
    /\ ExecIdle
    /\ RefreshIdle
    /\ NetIdle
    /\ ManualIdle
    /\ MonitorIdle
    /\ LifeIdle
    /\ ClassifyIdle
    /\ StreamIdle
    /\ CacheIdle
    /\ ClientIdle
    /\ TaskIdle
    /\ clamp_args \in ClampArgs
    /\ clamp_calls = <<>>

NextClamp == ClampCall

SpecClamp == InitClamp /\ [][NextClamp]_vars

\* =====================================================================
\* API.MX.client / b_network / COPY.state_ : the aiohttp session of a
\* follower's connector and the session its MexcClient sends on.  Sessions
\* are numbered in the order initialize_session creates them; 0 is None.
\* =====================================================================
\* sessions one connector lineage creates
MaxSessions == 3

\* REST calls of a run
MaxRestCalls == 3

RestKinds == {"order", "cancel", "positions"}

\* the session initialize_session creates next
NextSession == Cardinality(sessions_closed) + 2

\* MexcClient.__init__: the session the client keeps
ClientSessionAt(connector) == connector

\* notify_session_failure up to "self.session = None": the old session is
\* closed, the new one is not made yet
RecreateClose ==
    /\ connector_session # 0
    /\ NextSession <= MaxSessions
    /\ sessions_closed' = sessions_closed \cup {connector_session}
    /\ connector_session' = 0
    /\ UNCHANGED <<mc_client_session, rest_calls>>
    /\ UNCHANGED nonClientVars

\* notify_session_failure, initialize_session: the connector has a new
\* session; the client is not told
RecreateInit ==
    /\ connector_session = 0
    /\ connector_session' = NextSession - 1
    /\ UNCHANGED <<sessions_closed, mc_client_session, rest_calls>>
    /\ UNCHANGED nonClientVars

\* deactivate_copy then activate_copy: shutdown_runtime closes the session,
\* _init_copy_runtime makes a new connector, session and client
Reactivate ==
    /\ connector_session # 0
    /\ NextSession <= MaxSessions
    /\ sessions_closed' = sessions_closed \cup {connector_session}
    /\ connector_session' = NextSession
    /\ mc_client_session' = ClientSessionAt(NextSession)
    /\ UNCHANGED rest_calls
    /\ UNCHANGED nonClientVars

\* a REST call of the follower: an order or a cancel is sent after
\* connector.wait_for_session() returned true, the positions of a refresh
\* without that wait; every call is sent with session = client.session
RestCall ==
    /\ Len(rest_calls) < MaxRestCalls
    /\ \E kind \in RestKinds :
         /\ kind \in {"order", "cancel"} => connector_session # 0
         /\ rest_calls' = Append(rest_calls,
                [kind |-> kind,
                 session |-> mc_client_session,
                 connector |-> connector_session,
                 closed |-> mc_client_session \in sessions_closed])
    /\ UNCHANGED <<connector_session, sessions_closed, mc_client_session>>
    /\ UNCHANGED nonClientVars

InitClient ==
    /\ MasterRunning
    /\ pos_vars_root = EmptyDict
    /\ ExecIdle
    /\ RefreshIdle
    /\ NetIdle
    /\ ManualIdle
    /\ MonitorIdle
    /\ LifeIdle
    /\ ClassifyIdle
    /\ StreamIdle
    /\ CacheIdle
    /\ TaskIdle
    /\ ClampIdle
    /\ ClientIdle

NextClient ==
    \/ RecreateClose
    \/ RecreateInit
    \/ Reactivate
    \/ RestCall

SpecClient == InitClient /\ [][NextClient]_vars

\* =====================================================================
\* The refresh coordinator taken up later in the run: an earlier burst
\* opened a LONG position for follower 1, its convergence loop saw the
\* position, scheduled on_stable and returned
\* =====================================================================
HeldAccount == [s \in Sides |-> IF s = "LONG" THEN 1 ELSE 0]

\* position_vars of a follower whose LONG position a refresh has entered
HeldPVs ==
    refresh(get_cid_symbol_pos(EmptyDict, "LONG"), fetch_positions(HeldAccount, TRUE), 1)

\* what _run leaves behind for that burst: the recorded hashes, no task
AfterOpenBurst ==
    /\ rt_pvs = [c \in Cids |-> IF c = 1 THEN HeldPVs ELSE EmptyDict]
    /\ prev_hash = [c \in Cids |-> IF c = 1 THEN snapshot_hash(HeldPVs)
                                   ELSE snapshot_hash(EmptyDict)]
    /\ loop = NoLoop
    /\ stable_tasks = <<>>
    /\ clock = 1

InitRefreshHeld ==
    /\ MasterRunning
    /\ pos_vars_root = EmptyDict
    /\ ExecIdle
    /\ AfterOpenBurst
    /\ bursts = <<>>
    /\ NetIdle
    /\ ManualIdle
    /\ MonitorIdle
    /\ LifeIdle
    /\ ClassifyIdle
    /\ StreamIdle
    /\ CacheIdle
    /\ ClientIdle
    /\ ClampIdle
    /\ TaskIdle

SpecRefreshHeld == InitRefreshHeld /\ [][NextRefresh]_vars

\* =====================================================================
\* MASTER.state_ / payload_ : one SignalCache, the stream that pushes to it
\* and the translator that consumes it.  Neither push_event nor pop_events
\* awaits while it holds _lock, so the lock is free whenever a task runs
\* and each of the two runs as one step of the event loop.
\* =====================================================================
\* events pushed to the cache in one run
MaxPushed == 4

\* pos_side of a pushed event ("None": the side code was not 1..4)
CacheSides == {"LONG", "SHORT", "None"}

\* a push_event that forgets to set the flag
push_event_silent(cache, ev) ==
    [cache EXCEPT !._events = Append(@, ev),
                  !._last_raw = IF ev.pos_side # "None"
                                THEN DictSet(@, <<ev.symbol, ev.pos_side>>, ev.raw) ELSE @]

\* SignalCache.push_event
push_event(cache, ev) ==
    [cache EXCEPT !._events = Append(@, ev),
                  !._last_raw = IF ev.pos_side # "None"
                                THEN DictSet(@, <<ev.symbol, ev.pos_side>>, ev.raw) ELSE @,
                  !._event_notify = TRUE]

\* SignalCache.pop_events: what it returns and the cache afterwards
pop_events(cache) ==
    [out |-> cache._events,
     cache |-> [cache EXCEPT !._events = <<>>, !._event_notify = FALSE]]

\* MasterSignalStream._emit awaits push_event; Event.set resolves the future
\* of a consumer that is blocked in wait
CachePush ==
    /\ Len(pushed) < MaxPushed
    /\ \E side \in CacheSides :
         LET ev == [symbol |-> "BTC_USDT", pos_side |-> side, raw |-> Len(pushed) + 1]
             after == push_event(sig_cache, ev)
         IN  /\ sig_cache' = after
             /\ pushed' = Append(pushed, ev)
             /\ consumer_pc' = IF consumer_pc = "waiting" /\ ~sig_cache._event_notify
                                  /\ after._event_notify
                               THEN "woken" ELSE consumer_pc
    /\ UNCHANGED <<consumer_stop, pop_batches>>
    /\ UNCHANGED nonCacheVars

\* MasterPayload.run gets the event loop: at its first run it tests the
\* loop condition; then, and after a wake-up, wait returns without
\* yielding if the flag is set and pop_events follows at once; the loop
\* goes round until wait blocks or the loop condition is false
ConsumerRun ==
    /\ consumer_pc \in {"ready", "woken"}
    /\ IF consumer_pc = "ready" /\ consumer_stop
       THEN /\ consumer_pc' = "done"
            /\ UNCHANGED <<sig_cache, pop_batches>>
       ELSE IF consumer_pc = "woken" \/ sig_cache._event_notify
       THEN LET r == pop_events(sig_cache)
            IN  /\ sig_cache' = r.cache
                /\ pop_batches' = Append(pop_batches, r.out)
                /\ consumer_pc' = IF consumer_stop THEN "done"
                                  ELSE IF r.cache._event_notify THEN "woken"
                                  ELSE "waiting"
       ELSE /\ consumer_pc' = "waiting"
            /\ UNCHANGED <<sig_cache, pop_batches>>
    /\ UNCHANGED <<consumer_stop, pushed>>
    /\ UNCHANGED nonCacheVars

\* MasterPayload.stop, called by the supervisor
ConsumerStop ==
    /\ ~consumer_stop
    /\ consumer_stop' = TRUE
    /\ UNCHANGED <<sig_cache, consumer_pc, pushed, pop_batches>>
    /\ UNCHANGED nonCacheVars

\* _stop_task after stop: the translator task is cancelled where it waits
ConsumerCancel ==
    /\ consumer_stop
    /\ consumer_pc \in {"ready", "waiting", "woken"}
    /\ consumer_pc' = "cancelled"
    /\ UNCHANGED <<sig_cache, consumer_stop, pushed, pop_batches>>
    /\ UNCHANGED nonCacheVars

InitCache ==
    /\ MasterRunning
    /\ pos_vars_root = EmptyDict
    /\ ExecIdle
    /\ RefreshIdle
    /\ NetIdle
    /\ ManualIdle
    /\ MonitorIdle
    /\ LifeIdle
    /\ ClassifyIdle
    /\ StreamIdle
    /\ CacheIdle
    /\ ClientIdle
    /\ ClampIdle
    /\ TaskIdle

NextCache ==
    \/ CachePush
    \/ ConsumerRun
    \/ ConsumerStop
    \/ ConsumerCancel

SpecCache == InitCache /\ [][NextCache]_vars

\* =====================================================================
\* SpecStream : MASTER.stream_ MasterSignalStream.start and its stop by
\* the supervisor
\* =====================================================================
MaxConnects == 2
MaxStreamEvents == 2

\* the awaits of start() and of what it calls
StreamAwaits ==
    {"ws_connect", "sleep_connect", "login", "sleep_login", "receive", "disc_ws",
     "disc_session", "sleep_reconnect"}

SetStream(m, pc, caller, res, hist) ==
    /\ ms' = m
    /\ start_pc' = pc
    /\ disc_caller' = caller
    /\ net_res' = res
    /\ stream_hist' = hist

\* the loop condition of start() and of _handle_messages
StreamGoesOn(m) == ~m.external_stop /\ ~app_stop

\* start() at the top of its loop: it returns, or _connect makes the session
\* when there is none and awaits ws_connect
LoopTop(m, res, hist) ==
    IF ~StreamGoesOn(m)
    THEN SetStream(m, "returned", disc_caller, res, hist)
    ELSE SetStream([m EXCEPT !.session = TRUE], "ws_connect", disc_caller,
                   [res EXCEPT !.sessions = IF m.session THEN @ ELSE @ + 1],
                   [hist EXCEPT !.connects = @ + 1])

\* _disconnect after its awaits: the fields are cleared, start() goes on after
\* the call
EndDisconnect(m, caller, res, hist) ==
    LET m1 == [m EXCEPT !.websocket = FALSE, !.session = FALSE]
    IN  IF caller = "login"
        THEN SetStream(m1, "sleep_login", caller, res, hist)
        ELSE IF ~m1.external_stop
        THEN SetStream(m1, "sleep_reconnect", caller, res, hist)
        ELSE LoopTop(m1, res, hist)

\* _disconnect up to its first await
BeginDisconnect(m, caller, res, hist) ==
    LET m1 == [m EXCEPT !.is_connected = FALSE, !.ready = FALSE,
                        !.ping_task = IF @ = "sleeping" THEN "cancelled" ELSE @]
    IN  IF m1.websocket THEN SetStream(m1, "disc_ws", caller, res, hist)
        ELSE IF m1.session THEN SetStream(m1, "disc_session", caller, res, hist)
        ELSE EndDisconnect(m1, caller, res, hist)

\* _handle_messages at the top of its loop
MessagesTop(m, res, hist) ==
    IF StreamGoesOn(m)
    THEN SetStream(m, "receive", disc_caller, res, hist)
    ELSE BeginDisconnect(m, "messages", res, hist)

\* the supervisor creates the task of start(); it runs up to its first await
StreamTaskStart ==
    /\ start_pc = "none"
    /\ LoopTop([ms EXCEPT !.external_stop = FALSE], net_res, stream_hist)
    /\ UNCHANGED app_stop
    /\ UNCHANGED nonStreamVars

\* ws_connect returns the websocket and _login sends its request, or
\* ws_connect raises and _connect answers False
WsConnectReturn ==
    /\ start_pc = "ws_connect"
    /\ \E ok \in BOOLEAN :
         IF ok
         THEN SetStream([ms EXCEPT !.websocket = TRUE, !.is_connected = TRUE], "login",
                        disc_caller, [net_res EXCEPT !.sockets = @ + 1], stream_hist)
         ELSE SetStream(ms, "sleep_connect", disc_caller, net_res, stream_hist)
    /\ UNCHANGED app_stop
    /\ UNCHANGED nonStreamVars

\* the answer to the login request: success, refusal, or no usable answer
\* within 10 s (the exception leaves start())
LoginReturn ==
    /\ start_pc = "login"
    /\ \E answer \in {"success", "refused", "raise"} :
         CASE answer = "success" ->
                MessagesTop([ms EXCEPT !.ready = TRUE, !.ping_task = "sleeping"],
                            net_res, stream_hist)
           [] answer = "refused" -> BeginDisconnect(ms, "login", net_res, stream_hist)
           [] OTHER -> SetStream(ms, "failed", disc_caller, net_res, stream_hist)
    /\ UNCHANGED app_stop
    /\ UNCHANGED nonStreamVars

\* one turn of _handle_messages: a timeout or a frame that is not an event,
\* a frame whose handler pushes one event to the cache, or an exception of
\* receive or json.loads (it leaves start())
StreamReceive ==
    /\ start_pc = "receive"
    /\ \E frame \in {"idle", "event", "raise"} :
         CASE frame = "idle" -> MessagesTop(ms, net_res, stream_hist)
           [] frame = "event" ->
                /\ stream_hist.pushes < MaxStreamEvents
                /\ MessagesTop(ms, net_res, [stream_hist EXCEPT !.pushes = @ + 1])
           [] OTHER -> SetStream(ms, "failed", disc_caller, net_res, stream_hist)
    /\ UNCHANGED app_stop
    /\ UNCHANGED nonStreamVars

\* websocket.close() returns, or raises: the exception is swallowed and
\* session.close() is skipped
WsCloseReturn ==
    /\ start_pc = "disc_ws"
    /\ \E ok \in BOOLEAN :
         IF ok
         THEN LET res == [net_res EXCEPT !.sockets = @ - 1]
              IN  IF ms.session
                  THEN SetStream(ms, "disc_session", disc_caller, res, stream_hist)
                  ELSE EndDisconnect(ms, disc_caller, res, stream_hist)
         ELSE EndDisconnect(ms, disc_caller, net_res, stream_hist)
    /\ UNCHANGED app_stop
    /\ UNCHANGED nonStreamVars

\* session.close() returns or raises
SessionCloseReturn ==
    /\ start_pc = "disc_session"
    /\ \E ok \in BOOLEAN :
         EndDisconnect(ms, disc_caller,
                       [net_res EXCEPT !.sessions = IF ok THEN @ - 1 ELSE @], stream_hist)
    /\ UNCHANGED app_stop
    /\ UNCHANGED nonStreamVars

\* a sleep of start() is over
StreamSleepDone ==
    /\ start_pc \in {"sleep_connect", "sleep_login", "sleep_reconnect"}
    /\ stream_hist.connects < MaxConnects \/ ~StreamGoesOn(ms)
    /\ LoopTop(ms, net_res, stream_hist)
    /\ UNCHANGED app_stop
    /\ UNCHANGED nonStreamVars

\* _ping_loop after its sleep: the ping is sent or the send raises
PingWake ==
    /\ ms.ping_task = "sleeping"
    /\ \E sent \in BOOLEAN :
         ms' = [ms EXCEPT !.ping_task =
                  IF sent /\ ms.websocket /\ StreamGoesOn(ms) /\ ms.is_connected
                  THEN "sleeping" ELSE "done"]
    /\ UNCHANGED <<start_pc, disc_caller, net_res, stream_hist, app_stop>>
    /\ UNCHANGED nonStreamVars

\* the application is stopped: stop_flag() answers True from now on
AppStop ==
    /\ ~app_stop
    /\ start_pc # "none"
    /\ app_stop' = TRUE
    /\ UNCHANGED <<ms, start_pc, disc_caller, net_res, stream_hist>>
    /\ UNCHANGED nonStreamVars

\* task.cancel() of _stop_task: CancelledError is raised at the await the
\* task is suspended at, no handler of start() catches it
CancelStreamTask(pc) == IF pc \in StreamAwaits THEN "cancelled" ELSE pc

\* HARD STOP and RELOAD: signal_stream.stop(), then _stop_task(stream_task)
SupervisorStopStream ==
    /\ start_pc # "none"
    /\ ~stream_hist.stopped
    /\ SetStream([ms EXCEPT !.external_stop = TRUE, !.ready = FALSE],
                 CancelStreamTask(start_pc), disc_caller, net_res,
                 [stream_hist EXCEPT !.stopped = TRUE, !.pushes_at_stop = stream_hist.pushes])
    /\ UNCHANGED app_stop
    /\ UNCHANGED nonStreamVars

InitStream ==
    /\ MasterRunning
    /\ pos_vars_root = EmptyDict
    /\ ExecIdle
    /\ RefreshIdle
    /\ NetIdle
    /\ ManualIdle
    /\ MonitorIdle
    /\ LifeIdle
    /\ ClassifyIdle
    /\ CacheIdle
    /\ StreamIdle
    /\ ClientIdle
    /\ ClampIdle
    /\ TaskIdle

NextStream ==
    \/ StreamTaskStart
    \/ WsConnectReturn
    \/ LoginReturn
    \/ StreamReceive
    \/ WsCloseReturn
    \/ SessionCloseReturn
    \/ StreamSleepDone
    \/ PingWake
    \/ AppStop
    \/ SupervisorStopStream

SpecStream == InitStream /\ [][NextStream]_vars

\* =====================================================================
\* SpecClassify : MASTER.stream_ _handle_order / _emit over the frames of
\* the order channel
\* =====================================================================
\* BLACK_SYMBOLS as an operator can set it, in the form a_config documents
\* (COIN_USDT), in either case
BlackConfigs == {{}, {"ETH_USDT"}, {"eth_usdt"}, {"BTC_USDT", "ETH_USDT"}}

\* state, orderType, symbol and side of a frame; 0 is what int() makes of a
\* missing state or orderType
FrameStates == 0 .. 5
FrameOrderTypes == {0, 1, 2, 5}
FrameSymbols == {"BTC_USDT", "BTCUSDT", "ETH_USDT", "eth_usdt"}
FrameSides == {1, 4}

ClassifyFrames ==
    {[OrderFrame("L1", side, state).data EXCEPT !.symbol = symbol, !.orderType = ot] :
        side \in FrameSides, state \in FrameStates, symbol \in FrameSymbols,
        ot \in FrameOrderTypes}

\* _handle_messages hands one frame of push.personal.order to _handle_order
ClassifyFrame ==
    /\ \E data \in ClassifyFrames :
         /\ order_frame' = <<data>>
         /\ order_pushed' = _handle_order(black_symbols(black_cfg), data)
    /\ UNCHANGED black_cfg
    /\ UNCHANGED nonClassifyVars

InitClassify ==
    /\ MasterRunning
    /\ pos_vars_root = EmptyDict
    /\ ExecIdle
    /\ RefreshIdle
    /\ NetIdle
    /\ ManualIdle
    /\ MonitorIdle
    /\ LifeIdle
    /\ CacheIdle
    /\ StreamIdle
    /\ ClientIdle
    /\ ClampIdle
    /\ TaskIdle
    /\ black_cfg \in BlackConfigs
    /\ order_frame = <<>>
    /\ order_pushed = <<>>

NextClassify == ClassifyFrame

SpecClassify == InitClassify /\ [][NextClassify]_vars

\* the tasks of a side that are inside "async with lock" (delay or REST call)
InCS(side) ==
    {t \in DOMAIN hpc : hpc[t] \in {"delay", "rest"} /\ emitted[t].pos_side = side}

\* cancel REST attempts and CANCEL MISS logs of a task
CancelAttempts(t) ==
    Cardinality({i \in DOMAIN restLog : restLog[i].task = t /\ restLog[i].kind = "cancel"})
CancelMisses(t) ==
    Cardinality({i \in DOMAIN log_events :
                   log_events[i].task = t /\ log_events[i].text = "CANCEL MISS"})

\* ---------------------------------------------------------------------
\* C3: for the follower and each (symbol, pos_side), at most one executor
\* order action (cancel, close, market/limit, with its delay and its REST
\* call) is inside the critical section at any time.
C3_OneActionPerKey == \A side \in Sides : Cardinality(InCS(side)) <= 1

\* one task is inside the critical section while another waits on its lock
C3_Witness ==
    \E t1 \in DOMAIN hpc : \E t2 \in DOMAIN hpc :
        /\ t1 # t2
        /\ emitted[t1].pos_side = emitted[t2].pos_side
        /\ hpc[t1] \in {"delay", "rest"}
        /\ hpc[t2] = "wait_lock"

\* ---------------------------------------------------------------------
\* C4: within one (follower, symbol, pos_side), MasterEvents enter the
\* critical section and issue their REST call in the order in which the
\* translator emitted them.
C4_AppliedInEmissionOrder ==
    /\ \A side \in Sides : \A i \in DOMAIN csLog[side] : \A j \in DOMAIN csLog[side] :
          i < j => csLog[side][i] < csLog[side][j]
    /\ \A i \in DOMAIN restLog : \A j \in DOMAIN restLog :
          (i < j /\ emitted[restLog[i].task].pos_side = emitted[restLog[j].task].pos_side)
             => restLog[i].task < restLog[j].task

\* ---------------------------------------------------------------------
\* C5: every open (non-close) order issued for a follower whose config sets
\* max_position_size has a margin contracts * contract_size * price /
\* leverage of at most |max_position_size| and carries the follower's coef,
\* with the contract size of the spec held for the symbol.
C5_OpenOrdersClamped ==
    \A i \in DOMAIN restLog :
        LET r == restLog[i]
            mev == emitted[r.task]
        IN  (r.kind = "order" /\ ~mev.closed /\ copy_cfg.max_position_size # 0) =>
              LET spec == pos_vars_root[mev.symbol].spec
              IN  /\ r.intent.contracts * spec.contract_size * mev.payload.price
                        <= Abs(copy_cfg.max_position_size) * r.intent.leverage
                  /\ r.intent.contracts * 100 <= mev.payload.qty * copy_cfg.coef

\* ---------------------------------------------------------------------
\* C7: when a canceled MasterEvent is processed twice and the first
\* processing finds the master order recorded with a copy order id (nothing
\* records it again in between), the first processing makes exactly one
\* cancel REST attempt and logs no CANCEL MISS, the second makes no attempt
\* and logs exactly one CANCEL MISS, and the entry of the master order id is
\* absent from orders_vars from the first processing on.
SameCancelTwice(i, j) ==
    /\ i < j
    /\ ovLog[i].op = "cancel" /\ ovLog[j].op = "cancel"
    /\ ovLog[i].oid = ovLog[j].oid /\ ovLog[i].side = ovLog[j].side
    /\ emitted[ovLog[i].task] = emitted[ovLog[j].task]
    /\ ovLog[i].had
    /\ \A k \in DOMAIN ovLog : (i < k /\ k < j) => ovLog[k].oid # ovLog[i].oid

C1_SelfEchoSuppressed ==
    \A i \in DOMAIN routeLog :
        LET e == routeLog[i]
            oid == e.ev.raw.orderId
        IN  e.ev.event_type = "limit_filled" =>
              /\ oid \in e.placedPre => (e.out = <<>> /\ oid \notin e.intentsPost)
              /\ oid \notin e.intentsPre =>
                    /\ Len(e.out) = 1
                    /\ e.out[1].event = "buy"
                    /\ e.out[1].method = "limit"
                    /\ e.out[1].closed = FALSE

\* a limit_filled was routed whose limit_placed the same translator had routed
C1_Witness ==
    \E i \in DOMAIN routeLog :
        /\ routeLog[i].ev.event_type = "limit_filled"
        /\ routeLog[i].ev.raw.orderId \in routeLog[i].placedPre
        /\ routeLog[i].ev.raw.orderId \in routeLog[i].intentsPre

\* ---------------------------------------------------------------------
\* C2: for every limit order the master placed (its limit_placed was emitted
\* as an intent), whatever the supervisor did in between (HARD STOP, RELOAD),
\* the id is in the _limit_intents consulted when its limit_filled is routed,
\* the fill emits nothing, and at most one buy/limit MasterEvent per master
\* limit order reaches the dispatcher.
C2_EchoSuppressedAcrossRestarts ==
    /\ \A i \in DOMAIN routeLog :
          LET e == routeLog[i]
          IN  (e.ev.event_type = "limit_filled" /\ e.ev.raw.orderId \in e.globalPre)
                => (e.ev.raw.orderId \in e.intentsPre /\ e.out = <<>>)
    /\ \A oid \in OrderIds : dispatched[oid] <= 1

\* ---------------------------------------------------------------------
\* C6: when an oco_attached on (symbol, side) was routed before the next
\* fill on the same (symbol, side), the MasterEvent emitted for that fill
\* carries the tp/sl of the oco_attached and the PV's _attached_tp and
\* _attached_sl are None afterwards.
C6_OcoCarriedAndCleared ==
    \A i \in DOMAIN routeLog :
        LET e == routeLog[i]
        IN  (e.ev.event_type \in FillTypes /\ e.ocoPre # NoOco /\ e.out # <<>>) =>
              /\ e.out[1].payload.tp_price = e.ocoPre.tp
              /\ e.out[1].payload.sl_price = e.ocoPre.sl
              /\ e.pvPost._attached_tp = NoneNum
              /\ e.pvPost._attached_sl = NoneNum


\* ---------------------------------------------------------------------
\* milliseconds since the running _run took its start_ts
LoopElapsedMs == (clock - loop.start_ts) * TickMs

\* after each comparison no follower left in pending has a PV hash that
\* differs from its recorded one, and the followers taken out of pending are
\* exactly those on_stable was scheduled for
C8_RemovedWhenChanged ==
    /\ loop.pc = "sleep" =>
          \A c \in loop.pending : snapshot_hash(rt_pvs[c]) = prev_hash[c]
    /\ loop.running =>
          /\ loop.pending \cup loop.scheduled = loop.monitors
          /\ loop.pending \cap loop.scheduled = {}

\* _run returns only with nothing pending or at the deadline, and makes no
\* on_stable task for what it drops; every id that enters scheduled gets its
\* on_stable task in the same step
C8_LoopStep ==
    /\ (loop.running /\ ~loop'.running) =>
          /\ loop.pending = {} \/ LoopElapsedMs >= ttl_ms
          /\ stable_tasks' = stable_tasks
    /\ (loop.running /\ loop'.running /\ loop'.scheduled # loop.scheduled) =>
          /\ Len(stable_tasks') = Len(stable_tasks) + 1
          /\ stable_tasks'[Len(stable_tasks')].ids = loop'.scheduled \ loop.scheduled
          /\ loop.pending \ loop'.pending = loop'.scheduled \ loop.scheduled

\* C8: every convergence loop of the RefreshCoordinator terminates; a
\* pending follower id is removed, with on_stable scheduled for it, as soon
\* as its PV hash differs from its recorded pre-hash, or it stays pending
\* until the deadline of ttl_ms (5 s), after which the loop ends with the id
\* dropped and no on_stable call for it.
C8_LoopTerminates ==
    /\ []C8_RemovedWhenChanged
    /\ [][C8_LoopStep]_vars
    /\ (loop.running ~> ~loop.running)

\* a loop at its deadline: one follower has converged and got its on_stable,
\* another is still pending and about to be dropped
C8_Witness ==
    /\ loop.pc = "sleep"
    /\ loop.pending # {}
    /\ loop.scheduled # {}
    /\ LoopElapsedMs >= ttl_ms

\* ---------------------------------------------------------------------
\* C9: every fan-out burst that issued orders (non-empty monitor set) gets
\* convergence polling for its followers: once its trigger(monitors) call
\* has been made, a polling loop is running with all those monitors
\* pending, whether or not the loop of an earlier burst was still running.
C9_EveryBurstPolled ==
    [][\A b \in DOMAIN bursts :
          (bursts[b].pc = "gather" /\ bursts'[b].pc = "done" /\ bursts[b].monitors # {})
            => (loop'.running /\ bursts[b].monitors \subseteq loop'.pending)]_vars

\* ---------------------------------------------------------------------
\* C10: in every reachable state, for every follower, symbol and side,
\* in_position = false implies qty = 0 and in_position = true implies
\* qty > 0.
C10_QtyMatchesInPosition ==
    \A c \in Cids : \A s \in DOMAIN rt_pvs[c] :
        LET pv == rt_pvs[c][s]
        IN  /\ pv.in_position = FALSE => pv.qty = 0
            /\ pv.in_position = TRUE => pv.qty > 0

\* one follower holds a position, the position of another was found closed
\* by refresh and waits for its PnL report
C10_Witness ==
    \E c1 \in Cids : \E c2 \in Cids : \E s1 \in DOMAIN rt_pvs[c1] :
    \E s2 \in DOMAIN rt_pvs[c2] :
        /\ rt_pvs[c1][s1].in_position = TRUE
        /\ rt_pvs[c1][s1].qty > 0
        /\ rt_pvs[c2][s2].in_position = FALSE
        /\ DictGet(rt_pvs[c2][s2], "_state", "") = "CLOSED_PENDING"


\* ---------------------------------------------------------------------
\* the _entry_ts and the _state a PV holds (None when the key is missing)
EntryTs(pv) == DictGet(pv, "_entry_ts", NoneNum)
PvState(pv) == DictGet(pv, "_state", "None")

\* C11: _entry_ts is stamped with now() when a follower PV goes from
\* in_position false to true, keeps exactly that value while the position
\* is held, and is carried into CLOSED_PENDING when the position is found
\* closed, where it stays until the PnL report takes it.
C11_EntryTsKept ==
    [][\A c \in Cids : \A s \in DOMAIN rt_pvs[c] :
          LET pv == rt_pvs[c][s]
              pv2 == rt_pvs'[c][s]
          IN  /\ (~pv.in_position /\ pv2.in_position) => EntryTs(pv2) = clock
              /\ (pv.in_position /\ pv2.in_position) => EntryTs(pv2) = EntryTs(pv)
              /\ (pv.in_position /\ ~pv2.in_position) =>
                    (EntryTs(pv2) = EntryTs(pv) /\ PvState(pv2) = "CLOSED_PENDING")
              /\ (PvState(pv) = "CLOSED_PENDING" /\ PvState(pv2) = "CLOSED_PENDING") =>
                    EntryTs(pv2) = EntryTs(pv)]_vars

\* ---------------------------------------------------------------------
\* C12: one failed follower never poisons the others: when the handler of
\* one follower raises during a fan-out in which other followers issued
\* their orders, those other followers are still included in the
\* convergence polling triggered after the fan-out (no poll loop of an
\* earlier burst being in the way).
C12_OthersStillPolled ==
    [][\A b \in DOMAIN bursts :
          (/\ bursts[b].pc = "gather" /\ bursts'[b].pc = "failed"
           /\ Cardinality(bursts[b].monitors) >= 2
           /\ ~loop.running)
            => (/\ loop'.running
                /\ \E c \in bursts[b].monitors :
                      bursts[b].monitors \ {c} \subseteq loop'.pending)]_vars

\* ---------------------------------------------------------------------
\* the tasks that have made a REST call, changed orders_vars or entered the
\* critical section of their key
TasksWithRest == {restLog[i].task : i \in DOMAIN restLog}
TasksWithOv == {ovLog[i].task : i \in DOMAIN ovLog}
TasksInCS == UNION {{csLog[s][i] : i \in DOMAIN csLog[s]} : s \in Sides}

\* a handler that waits for the session or was dropped has made no REST
\* call and has not touched orders_vars
C13_NoRestBeforeSession ==
    \A t \in DOMAIN hpc :
        hpc[t] \in {"poll", "dropped"} =>
            t \notin TasksWithRest \cup TasksWithOv \cup TasksInCS

\* a handler goes on past wait_for_session only in a state where the
\* session is there and open, and a handler that is dropped leaves
\* orders_vars and the REST calls as they are
C13_Step ==
    \A t \in DOMAIN hpc' :
        /\ ((t \notin DOMAIN hpc \/ hpc[t] = "poll") /\ hpc'[t] \notin {"poll", "dropped"})
              => session_open
        /\ (t \in DOMAIN hpc /\ hpc[t] = "poll" /\ hpc'[t] = "dropped")
              => (~session_open /\ orders_vars' = orders_vars /\ restLog' = restLog)
        /\ (t \in DOMAIN hpc /\ hpc'[t] = "dropped") => hpc[t] \in {"poll", "dropped"}

\* C13: no order, trigger or cancel REST call is issued for a follower
\* unless its runtime has a client and wait_for_session returned true for
\* that event; otherwise the event is dropped for that follower with no REST
\* call and no change to its orders_vars.
C13_RestOnlyWithSession == []C13_NoRestBeforeSession /\ [][C13_Step]_vars

\* the session went away: one event was dropped at the session wait after
\* an order had been recorded, and a later event made its REST call
C13_Witness ==
    \E t \in DOMAIN hpc : \E u \in DOMAIN hpc :
        /\ hpc[t] = "dropped"
        /\ u > t
        /\ u \in TasksWithRest
        /\ \E s \in Sides : orders_vars[s].limit # EmptyDict

\* ---------------------------------------------------------------------
\* C14: session recreate is single-flight: a call of notify_session_failure
\* made while a recreate is in progress returns without closing or
\* re-initialising the session, so that overlapping calls perform one
\* close-old/initialise-new cycle.
C14_SingleFlight ==
    \A c \in DOMAIN notify_calls :
        notify_calls[c].overlapped =>
            (notify_calls[c].pc # "closing" /\ ~notify_calls[c].cycled)

\* ---------------------------------------------------------------------
\* the master side torn down: no stream, no live stream or translator task,
\* no copy loop, no recorded credentials hash
MasterStopped ==
    /\ ~signal_stream.exists
    /\ ~signal_stream.ready
    /\ stream_task # "alive"
    /\ payload_task # "alive"
    /\ ~payload.exists
    /\ copy_loop_task = "none"
    /\ last_hash = 0

\* a step of the supervisor under stop_flag ends with the master side torn
\* down; under stop_flag nothing is created; and a torn-down master side is
\* left only by RELOAD, which makes a new stream and task out of the stored
\* credentials with trading enabled
C15_Step ==
    /\ (/\ cmd_state.stop_flag
        /\ <<signal_stream.exists, payload, copy_loop_task, last_hash>> #
             <<signal_stream'.exists, payload', copy_loop_task', last_hash'>>)
          => MasterStopped'
    /\ cmd_state.stop_flag =>
          /\ stream_task' = "alive" => stream_task = "alive"
          /\ payload_task' = "alive" => payload_task = "alive"
          /\ signal_stream'.exists => signal_stream.exists
          /\ copy_loop_task' # "none" => copy_loop_task' = copy_loop_task
    /\ (MasterStopped /\ ~MasterStopped') =>
          /\ ~cmd_state.stop_flag
          /\ cmd_state.trading_enabled
          /\ creds # 0
          /\ signal_stream'.exists
          /\ stream_task' = "alive"
          /\ events' = <<>>

\* C15: when the supervisor observes stop_flag, by the end of that step the
\* MasterStream is stopped (ready = false), the stream task and the
\* translator task are cancelled, the copy loop is stopped and last_hash is
\* cleared; while stop_flag stays set no stream, translator or copy loop is
\* created, and the next start goes through RELOAD.
C15_HardStopTearsDown == [][C15_Step]_vars

\* a master that ran and relayed frames, stopped by the supervisor
C15_Witness ==
    /\ cmd_state.stop_flag
    /\ MasterStopped
    /\ framesSent > 0
    /\ stream_task = "done"
    /\ payload_task = "done"

\* ---------------------------------------------------------------------
\* the master PVs that hold a TP or SL stored by an oco_attached
AttachedPVs(root) ==
    {k \in Symbols \X Sides :
        /\ k[1] \in DOMAIN root
        /\ k[2] \in DOMAIN root[k[1]]
        /\ \/ root[k[1]][k[2]]._attached_tp # NoneNum
           \/ root[k[1]][k[2]]._attached_sl # NoneNum}

\* C16: entering HARD_STOP or RELOAD resets the master PVs: afterwards no
\* master PV holds state written before the transition; a torn-down master
\* side holds no attached TP/SL, and neither does the state a RELOAD leaves
\* when it has made its new translator.
C16_MasterPVsReset ==
    /\ [](MasterStopped => AttachedPVs(pos_vars_root) = {})
    /\ [][(last_hash' # last_hash /\ last_hash' # 0) =>
              AttachedPVs(pos_vars_root') = {}]_vars

\* ---------------------------------------------------------------------
\* C17: when signal_loop expands the manual close that on_close queued for
\* the ids I, the tasks it creates are exactly one per (cid in I, symbol,
\* side) whose follower PV has in_position and qty > 0; each event has
\* sig_type manual, closed = true, _cid = cid and the payload qty of that
\* PV; no expanded event is ever bound to cid 0
\* ---------------------------------------------------------------------
ExpectedSubs(ids) ==
    {k \in {ids[i] : i \in DOMAIN ids} \X Symbols \X Sides :
       /\ k[1] \in DOMAIN copy_runtime_states
       /\ copy_runtime_states[k[1]].position_vars[k[3]].in_position
       /\ copy_runtime_states[k[1]].position_vars[k[3]].qty > 0}

C17_Step ==
    (manual_queue # <<>> /\ manual_queue' = Tail(manual_queue)) =>
       LET created == SubSeq(sub_tasks', Len(sub_tasks) + 1, Len(sub_tasks'))
           expected == ExpectedSubs(Head(manual_queue).ids)
       IN  /\ SubSeq(sub_tasks', 1, Len(sub_tasks)) = sub_tasks
           /\ Len(created) = Cardinality(expected)
           /\ \A k \in expected : \E i \in DOMAIN created :
                /\ created[i].mev._cid = k[1]
                /\ created[i].mev.symbol = k[2]
                /\ created[i].mev.pos_side = k[3]
                /\ created[i].mev.sig_type = "manual"
                /\ created[i].mev.closed
                /\ created[i].mev.payload.qty
                     = copy_runtime_states[k[1]].position_vars[k[3]].qty

C17_NeverMaster == \A t \in DOMAIN sub_tasks : sub_tasks[t].mev._cid # 0

SubPcBefore(t) == IF t \in DOMAIN sub_tasks THEN sub_tasks[t].pc ELSE "none"
SideRootOf(rts, t) == rts[sub_tasks'[t].mev._cid].orders_vars[sub_tasks'[t].mev.pos_side]
NewRest == manual_rest' \ manual_rest

\* the step on which task t sends its close: one MARKET order for the PV qty
C18_CloseSent(t) ==
    LET mev == sub_tasks'[t].mev
    IN  (SubPcBefore(t) \in {"new", "wait_lock"} /\ sub_tasks'[t].pc # SubPcBefore(t)
           /\ sub_tasks'[t].pc # "wait_lock")
          => /\ sub_tasks'[t].pc = "close_rest"
             /\ NewRest = {[task |-> t, kind |-> "order", market_type |-> "MARKET",
                            symbol |-> mev.symbol, side |-> "SELL",
                            position_side |-> mev.pos_side,
                            contracts |-> copy_runtime_states[mev._cid]
                                            .position_vars[mev.pos_side].qty]}

\* the bulk cancel of task t is in flight, for every recorded id
BulkCancelSent(t) ==
    /\ sub_tasks'[t].pc = "cancel_rest"
    /\ NewRest = {[task |-> t, kind |-> "cancel_bulk", symbol |-> sub_tasks'[t].mev.symbol,
                   limit_order_ids |->
                     RecordedIds(SideRootOf(copy_runtime_states, t).limit),
                   trigger_order_ids |->
                     RecordedIds(SideRootOf(copy_runtime_states, t).trigger)]}

HasRecordedIds(t) ==
    RecordedIds(SideRootOf(copy_runtime_states, t).limit)
      \cup RecordedIds(SideRootOf(copy_runtime_states, t).trigger) # {}

\* the step on which the close of task t returns, as the claim words it: the
\* recorded ids are bulk-cancelled
C18_CloseReturnedAlwaysCancels(t) ==
    (SubPcBefore(t) = "close_rest" /\ sub_tasks'[t].pc # "close_rest" /\ HasRecordedIds(t))
      => BulkCancelSent(t)

\* the same when the close order was placed; a close the exchange refused
\* ends the handling and leaves the maps alone
C18_CloseReturned(t) ==
    (SubPcBefore(t) = "close_rest" /\ sub_tasks'[t].pc # "close_rest")
      => \/ /\ sub_tasks'[t].res = "close_failed"
            /\ NewRest = {}
            /\ copy_runtime_states' = copy_runtime_states
         \/ /\ sub_tasks'[t].res # "close_failed"
            /\ IF HasRecordedIds(t) THEN BulkCancelSent(t)
               ELSE NewRest = {} /\ sub_tasks'[t].pc = "done"
            /\ copy_runtime_states' = copy_runtime_states

\* the step on which the bulk cancel of task t returns
C18_CancelReturned(t) ==
    (SubPcBefore(t) = "cancel_rest" /\ sub_tasks'[t].pc # "cancel_rest")
      => /\ sub_tasks'[t].pc = "done"
         /\ NewRest = {}
         /\ \/ /\ sub_tasks'[t].res = "cancelled"
               /\ SideRootOf(copy_runtime_states', t) = NoOrders
            \/ /\ sub_tasks'[t].res = "cancel_failed"
               /\ SideRootOf(copy_runtime_states', t) = SideRootOf(copy_runtime_states, t)

\* the claim as worded: the bulk cancel follows the close whatever it answered
C18_ManualCloseAlwaysCancels ==
    [][\A t \in DOMAIN sub_tasks' :
         C18_CloseSent(t) /\ C18_CloseReturnedAlwaysCancels(t) /\ C18_CancelReturned(t)]_vars

C18_ManualCloseCancels ==
    [][\A t \in DOMAIN sub_tasks' :
         C18_CloseSent(t) /\ C18_CloseReturned(t) /\ C18_CancelReturned(t)]_vars

\* follower 1 was closed by hand on LONG: the close for 2 contracts went
\* out, the bulk cancel of c1 and c2 succeeded and the maps are empty;
\* another manual close ended at a refused close order
C18_Witness ==
    /\ \E t \in DOMAIN sub_tasks :
         /\ sub_tasks[t].res = "cancelled"
         /\ sub_tasks[t].mev._cid = 1
         /\ copy_runtime_states[1].orders_vars[sub_tasks[t].mev.pos_side] = NoOrders
         /\ \E r \in manual_rest :
              r.task = t /\ r.kind = "cancel_bulk" /\ r.limit_order_ids = {"c1"}
                /\ r.trigger_order_ids = {"c2"}
         /\ \E r \in manual_rest : r.task = t /\ r.kind = "order" /\ r.contracts = 2
    /\ \E u \in DOMAIN sub_tasks : sub_tasks[u].res = "close_failed"

\* ---------------------------------------------------------------------
\* C19: a refresh whose fetch of the open positions failed (the exchange
\* answered nothing or an error) leaves the PV cache as it was: no PV changes
\* in_position, qty, _entry_ts or _state, none becomes CLOSED_PENDING
\* ---------------------------------------------------------------------
CacheFields(pv) ==
    <<DictGet(pv, "in_position", FALSE), DictGet(pv, "qty", 0),
      DictGet(pv, "_entry_ts", NoneNum), DictGet(pv, "_state", "None")>>

C19_FailOpen ==
    [][(refresh_calls' # refresh_calls /\ last_response' \in {"null", "error"})
         => \A s \in DOMAIN monitor_pvs :
              CacheFields(monitor_pvs'[s]) = CacheFields(monitor_pvs[s])]_vars

\* ---------------------------------------------------------------------
\* C20: the lifecycle of a follower is serialized: a runtime init and a
\* runtime shutdown of the cid never overlap, shutdown_runtime runs only
\* while the init lock of the cid is held, and at most one runtime init is
\* in progress at any time
\* ---------------------------------------------------------------------
\* tasks inside shutdown_runtime
InShutdown == {t \in DOMAIN lifecycle_tasks : lifecycle_tasks[t].pc = "shutting"}
\* activate_copy tasks inside _init_copy_runtime (its clean-up after a failure)
InInit == {t \in InShutdown : lifecycle_tasks[t].kind = "activate"}

\* task t runs _init_copy_runtime on this step
RunsInit(t) ==
    /\ lifecycle_tasks'[t].kind = "activate"
    /\ (t \notin DOMAIN lifecycle_tasks \/ lifecycle_tasks[t].pc \in {"wait_lock", "granted"})
    /\ lifecycle_tasks'[t].pc \in {"done", "shutting"}
    /\ init_state # "READY"

C20_ShutdownUnderLock == \A t \in InShutdown : _init_locks.holder = t

C20_OneInit == Cardinality(InInit) <= 1

C20_NoOverlap ==
    /\ [](\A t \in InInit : InShutdown \ {t} = {})
    /\ [][\A t \in DOMAIN lifecycle_tasks' : RunsInit(t) => InShutdown \ {t} = {}]_vars

C20_LifecycleSerialized ==
    /\ C20_NoOverlap
    /\ []C20_ShutdownUnderLock
    /\ []C20_OneInit

\* ---------------------------------------------------------------------
\* C21  Every task the copy side creates (the task of an event, the tasks
\*      of its followers, the refresh loop, the on_stable tasks) is in
\*      mc.background_tasks while it is not done, and none of them is
\*      still running once CoreApp.shutdown has cancelled that set.
\* ---------------------------------------------------------------------
LiveTasks == {t \in DOMAIN spawned : ~TaskDone(t)}

C21_TasksRegisteredAndCancelled ==
    /\ LiveTasks \subseteq background_tasks
    /\ app_stopped => LiveTasks = {}

\* ---------------------------------------------------------------------
\* C22  Clamp monotonicity.  As stated, for any two values m1 <= m2 of
\*      max_position_size the clamp returns at least as many contracts for
\*      m2 as for m1 (C22_MonotoneAnyCap).  The value 0 means no cap and a
\*      negative value is taken by its absolute value, so the statement
\*      holds for the caps that are set and positive: for 0 < m1 <= m2 the
\*      contracts for m2 are at least the contracts for m1.
\* ---------------------------------------------------------------------
C22_MonotoneAnyCap ==
    \A i, j \in DOMAIN clamp_calls :
       clamp_calls[i].max_margin <= clamp_calls[j].max_margin
         => clamp_calls[i].contracts <= clamp_calls[j].contracts

C22_ClampMonotone ==
    \A i, j \in DOMAIN clamp_calls :
       (0 < clamp_calls[i].max_margin /\ clamp_calls[i].max_margin <= clamp_calls[j].max_margin)
         => clamp_calls[i].contracts <= clamp_calls[j].contracts

\* the smaller cap cut the order, the larger one let more through
C22_Witness ==
    \E i, j \in DOMAIN clamp_calls :
       /\ 0 < clamp_calls[i].max_margin
       /\ clamp_calls[i].max_margin < clamp_calls[j].max_margin
       /\ 0 < clamp_calls[i].contracts
       /\ clamp_calls[i].contracts < clamp_calls[j].contracts

\* ---------------------------------------------------------------------
\* C23  The clamp formula.  As stated (C23_ClampFormulaAsStated): margin =
\*      contracts * contract_size * price / leverage, times |coef| when coef
\*      is not 0 or 1, times |rnd / 100|, then margin = min(margin,
\*      |max_position_size|), base_qty = margin * leverage / price and
\*      contracts = floor(base_qty / vol_unit) * vol_unit rounded to
\*      contract_precision.  The code divides base_qty by contract_size
\*      before the grid, leaves the margin alone when max_position_size is 0
\*      and takes |max_position_size| as the margin when it is negative;
\*      with these three points the formula is what the clamp returns, and
\*      the example (coef 0.5, cap 50, price 100, leverage 10, contract_size
\*      1, vol_unit 0.1, precision 1, master contracts 20) gives 5.0.
\* ---------------------------------------------------------------------
\* coef, rnd or max_position_size changes the size
SizingApplies(m) ==
    clamp_args.coef \notin {0, 100} \/ clamp_args.rnd \notin {0, 100} \/ m # 0

\* margin after coef and rnd, as the fraction <<num, den>>
ScaledMargin ==
    <<clamp_args.contracts * clamp_args.spec.contract_size * clamp_args.price
        * (IF clamp_args.coef \notin {0, 100} THEN Abs(clamp_args.coef) ELSE 100)
        * Abs(clamp_args.rnd),
      clamp_args.leverage * 100 * 100>>

\* min(margin, cap) as a fraction
MinMargin(margin, cap) ==
    IF margin[1] >= cap * margin[2] THEN <<cap, 1>> ELSE margin

\* floor(base_qty / unit / vol_unit) * vol_unit, rounded, for a margin
GridContracts(margin, unit) ==
    round(((margin[1] * clamp_args.leverage)
             \div (margin[2] * clamp_args.price * unit * clamp_args.spec.vol_unit))
            * clamp_args.spec.vol_unit,
          clamp_args.spec.contract_precision)

StatedContracts(m) == GridContracts(MinMargin(ScaledMargin, Abs(m)), 1)

ActualContracts(m) ==
    GridContracts(IF m = 0 THEN ScaledMargin
                  ELSE IF m < 0 THEN <<Abs(m), 1>>
                  ELSE MinMargin(ScaledMargin, m),
                  clamp_args.spec.contract_size)

ExampleOrder ==
    [contracts |-> 200, price |-> 100, leverage |-> 10, coef |-> 50, rnd |-> 100,
     spec |-> [contract_precision |-> 1, contract_size |-> 1, vol_unit |-> 1]]

OtherSideOf(pos_side, emitted_side) ==
    \/ pos_side = "LONG" /\ emitted_side = "SHORT"
    \/ pos_side = "SHORT" /\ emitted_side = "LONG"

FollowsFillRules(ev, out) ==
    /\ Len(out) = 1
    /\ out[1].symbol = ev.symbol
    /\ out[1].closed = ev.raw.reduceOnly
    /\ IF ev.raw.reduceOnly THEN OtherSideOf(ev.pos_side, out[1].pos_side)
       ELSE out[1].pos_side = ev.pos_side
    /\ ev.event_type = "market_filled" =>
         /\ out[1].method = "market"
         /\ out[1].event = (IF ev.raw.reduceOnly THEN "sell" ELSE "buy")
    /\ ev.event_type = "trigger_filled" =>
         /\ out[1].method = "trigger"
         /\ out[1].event = (IF ev.raw.side \in {1, 3} THEN "buy" ELSE "sell")

\* the trigger fill of the example, routed by a translator without state
ExampleTriggerFill ==
    StreamEmit(black_symbols(BLACK_SYMBOLS), "BTC_USDT", "SHORT", "trigger_filled",
               [OrderFrame("T1", 1, 3).data EXCEPT !.reduceOnly = TRUE])[1]

ExampleRouted ==
    _route([intents |-> {}, root |-> EmptyDict, pending |-> <<>>], ExampleTriggerFill).pending

C24_FillTranslation ==
    /\ \A i \in DOMAIN routeLog :
          (Processed(routeLog[i].ev)
             /\ routeLog[i].ev.event_type \in {"market_filled", "trigger_filled"})
            => FollowsFillRules(routeLog[i].ev, routeLog[i].out)
    /\ Len(ExampleRouted) = 1
    /\ ExampleRouted[1].event = "buy"
    /\ ExampleRouted[1].method = "trigger"
    /\ ExampleRouted[1].pos_side = "LONG"
    /\ ExampleRouted[1].closed

\* one batch held a closing trigger fill and a market fill that opens
C24_Witness ==
    /\ \E i \in DOMAIN routeLog :
          /\ routeLog[i].ev.event_type = "trigger_filled"
          /\ routeLog[i].ev.raw.reduceOnly
          /\ routeLog[i].out[1].event = "sell"
          /\ routeLog[i].out[1].closed
    /\ \E i \in DOMAIN routeLog :
          /\ routeLog[i].ev.event_type = "market_filled"
          /\ ~routeLog[i].ev.raw.reduceOnly
          /\ routeLog[i].out[1].event = "buy"

\* ---------------------------------------------------------------------
\* C25  The TP/SL an oco_attached stores on a master PV is carried by at
\*      most one MasterEvent and is cleared when that event is emitted: a
\*      MasterEvent of a (symbol, side) carries TP/SL only if an
\*      oco_attached of that (symbol, side) was stored since the last
\*      MasterEvent that carried one, and after a batch the PV still holds
\*      TP/SL only if an oco_attached came after the last such event.
\* ---------------------------------------------------------------------
\* the PV of a key holds an attached TP or SL
Attached(root, key) ==
    /\ key[1] \in DOMAIN root
    /\ key[2] \in DOMAIN root[key[1]]
    /\ (root[key[1]][key[2]]._attached_tp # NoneNum
          \/ root[key[1]][key[2]]._attached_sl # NoneNum)

\* the step of the log emitted a MasterEvent of the key that carries TP/SL
CarriesOco(entry, key) ==
    /\ entry.out # <<>>
    /\ <<entry.out[1].symbol, entry.out[1].pos_side>> = key
    /\ (entry.out[1].payload.tp_price # NoneNum \/ entry.out[1].payload.sl_price # NoneNum)

\* the step of the log stored an oco_attached on the key
StoresOco(entry, key) ==
    /\ Processed(entry.ev)
    /\ entry.ev.event_type = "oco_attached"
    /\ <<entry.ev.symbol, entry.ev.pos_side>> = key

\* after the first n steps of the log an oco_attached of the key is stored and
\* no MasterEvent has carried it yet
RECURSIVE OcoLive(_, _, _, _)
OcoLive(log, n, key, live0) ==
    IF n = 0 THEN live0
    ELSE IF StoresOco(log[n], key) THEN TRUE
    ELSE IF CarriesOco(log[n], key) THEN FALSE
    ELSE OcoLive(log, n - 1, key, live0)

C25_Step ==
    (events # <<>> /\ events' = <<>>) =>
      \A key \in Symbols \X Sides :
         /\ \A j \in DOMAIN routeLog' :
               CarriesOco(routeLog'[j], key)
                 => OcoLive(routeLog', j - 1, key, Attached(pos_vars_root, key))
         /\ Attached(pos_vars_root', key)
              => OcoLive(routeLog', Len(routeLog'), key, Attached(pos_vars_root, key))

C25_OcoCarriedOnce == [][C25_Step]_vars

\* a MasterEvent carried the TP/SL and a later one of the same side did not
C25_Witness ==
    \E key \in Symbols \X Sides : \E i, j \in DOMAIN routeLog :
       /\ i < j
       /\ CarriesOco(routeLog[i], key)
       /\ routeLog[j].out # <<>>
       /\ <<routeLog[j].out[1].symbol, routeLog[j].out[1].pos_side>> = key
       /\ routeLog[j].ev.event_type \in {"market_filled", "trigger_filled"}
       /\ ~CarriesOco(routeLog[j], key)

\* ---------------------------------------------------------------------
\* C26  Stopping the master takes two steps: stop_flag becomes true only on
\*      a STOP press made while stop_confirm is pending, and stop_confirm is
\*      set by a STOP press made while trading is enabled, which leaves
\*      stop_flag alone; START is refused while stop_confirm is pending, so
\*      a pending stop_confirm ends only with the press that sets stop_flag.
\* ---------------------------------------------------------------------
C26_Step ==
    /\ (~cmd_state.stop_flag /\ cmd_state'.stop_flag)
          => (cmd_state.stop_confirm /\ cmd_state.trading_enabled)
    /\ (~cmd_state.stop_confirm /\ cmd_state'.stop_confirm)
          => /\ cmd_state.trading_enabled
             /\ cmd_state'.trading_enabled
             /\ cmd_state'.stop_flag = cmd_state.stop_flag
    /\ (cmd_state.stop_confirm /\ ~cmd_state'.stop_confirm)
          => (cmd_state'.stop_flag /\ ~cmd_state'.trading_enabled)

C26_TwoStepStop == [][C26_Step]_vars

\* the second STOP press was made and the supervisor has not acted on it yet
C26_Witness ==
    /\ cmd_state.stop_flag
    /\ ~cmd_state.stop_confirm
    /\ ~cmd_state.trading_enabled
    /\ ~MasterStopped

\* ---------------------------------------------------------------------
\* C27  Whenever the supervisor is in RUNNING (trading enabled, no stop
\*      flag, the credentials hash it stored is the current one and its
\*      stream task is not done) there is one live stream task, one live
\*      translator task reading the cache of that stream and one live copy
\*      loop attached to that translator.
\* ---------------------------------------------------------------------
\* the branch "RUNNING, SAME CREDS" of master_supervisor is the one taken
SupervisorRunning ==
    /\ ~cmd_state.stop_flag
    /\ cmd_state.trading_enabled
    /\ creds # 0
    /\ creds_hash(creds) = last_hash
    /\ stream_task = "alive"

C27_OneLivePipeline ==
    SupervisorRunning =>
       /\ signal_stream.exists
       /\ payload.exists
       /\ ~payload.stop
       /\ payload_task = "alive"
       /\ copy_loop_task \in {"waiting", "ready"}

\* ---------------------------------------------------------------------
\* C28  Every order, cancel and position REST call of a follower is sent on
\*      the session the connector holds at that moment, never on a session
\*      that was closed: after notify_session_failure has made a new
\*      session the calls of that follower's client use the new one.
\* ---------------------------------------------------------------------
C28_CallsOnLiveSession ==
    \A i \in DOMAIN rest_calls :
       /\ ~rest_calls[i].closed
       /\ rest_calls[i].connector # 0 => rest_calls[i].session = rest_calls[i].connector

\* ---------------------------------------------------------------------
\* C29  Each manual close is expanded for the follower ids it was issued
\*      with, also when a second on_close runs before the dispatcher has
\*      taken the event of the first: the tasks created for an event are
\*      those of the followers named by its own call that hold a position.
\* ---------------------------------------------------------------------
C29_Step ==
    (manual_queue # <<>> /\ manual_queue' = Tail(manual_queue)) =>
       LET created == SubSeq(sub_tasks', Len(sub_tasks) + 1, Len(sub_tasks'))
           own == ExpectedSubs(Head(manual_queue).ids)
       IN  {created[i].mev._cid : i \in DOMAIN created} = {k[1] : k \in own}

C29_ExpandedForOwnIds == [][C29_Step]_vars

\* ---------------------------------------------------------------------
\* C30  While the convergence loop runs, the pre-hash of a follower it is
\*      still waiting for stays the one recorded before the burst that
\*      started the loop: no step that leaves the follower pending in the
\*      running loop replaces its recorded hash.
\* ---------------------------------------------------------------------
C30_Step ==
    \A c \in Cids :
       (/\ loop.running /\ loop'.running
        /\ c \in loop.pending /\ c \in loop'.pending
        /\ c \in DOMAIN prev_hash)
          => (c \in DOMAIN prev_hash' /\ prev_hash'[c] = prev_hash[c])

C30_PreHashKept == [][C30_Step]_vars

\* ---------------------------------------------------------------------
\* C31  No follower PV is both in_position and in _state CLOSED_PENDING:
\*      what the PnL reporter collects as closed is not an open position.
\* ---------------------------------------------------------------------
C31_OpenNeverClosedPending ==
    \A c \in Cids : \A s \in DOMAIN rt_pvs[c] :
       ~(/\ DictGet(rt_pvs[c][s], "in_position", FALSE)
         /\ DictGet(rt_pvs[c][s], "_state", "") = "CLOSED_PENDING")

\* the state SpecRefreshHeld starts in comes about in a run of SpecRefresh
C31_HeldNotReached == ~(AfterOpenBurst /\ bursts = <<DoneBurst>>)

\* ---------------------------------------------------------------------
\* C32  Open and close target the same position: a master market order of
\*      side code 1 / 3 makes the follower send OpenLong / OpenShort, and
\*      a reduce-only market order of side code 4 / 2 makes it send the
\*      Close order of that same position, CloseLong / CloseShort.
\* ---------------------------------------------------------------------
SamePositionOrder(code) ==
    IF code = 1 THEN "OpenLong" ELSE IF code = 3 THEN "OpenShort"
    ELSE IF code = 4 THEN "CloseLong" ELSE "CloseShort"

C32_CloseTargetsOpenedPosition ==
    \A i \in DOMAIN routeLog :
       LET e == routeLog[i]
       IN  (/\ Processed(e.ev)
            /\ e.ev.event_type = "market_filled"
            /\ \/ e.ev.raw.side \in {1, 3} /\ ~e.ev.raw.reduceOnly
               \/ e.ev.raw.side \in {2, 4} /\ e.ev.raw.reduceOnly)
             => /\ Len(e.out) = 1
                /\ CopyOrderSide(e.out[1]) = SamePositionOrder(e.ev.raw.side)

\* ---------------------------------------------------------------------
\* C33  Every pushed SignalEvent is handed out by one pop_events call at
\*      most, in push order, and is in the queue until then; the notify
\*      flag is set whenever the queue is not empty, and the translator is
\*      never blocked in wait while the queue holds an event.
\* ---------------------------------------------------------------------
RECURSIVE Flatten(_)
Flatten(batches) ==
    IF batches = <<>> THEN <<>> ELSE Head(batches) \o Flatten(Tail(batches))

C33_FifoNoLostWakeup ==
    /\ Flatten(pop_batches) \o sig_cache._events = pushed
    /\ sig_cache._events # <<>> => sig_cache._event_notify
    /\ consumer_pc = "waiting" => sig_cache._events = <<>>

\* two events pushed before the translator ran were handed out in one batch,
\* and a later one woke the waiting translator
C33_Witness ==
    /\ Len(pop_batches) >= 2
    /\ Len(pop_batches[1]) = 2
    /\ Len(pushed) >= 3
    /\ consumer_pc = "woken"
    /\ sig_cache._events # <<>>

\* ---------------------------------------------------------------------
\* C34  The supervisor records the credentials hash, spawns the translator
\*      and restarts the copy loop only with a new stream that reported
\*      ready; an attempt whose stream did not report ready starts neither,
\*      and leaves the supervisor outside the RUNNING branch, so that its
\*      next iteration is a RELOAD again.
\* ---------------------------------------------------------------------
C34_Step ==
    /\ (last_hash' # last_hash /\ last_hash' # 0) =>
          /\ signal_stream'.exists /\ signal_stream'.ready
          /\ payload_task' = "alive"
          /\ copy_loop_task' = "waiting"
    /\ (payload_task' = "alive" /\ payload_task # "alive") =>
          /\ signal_stream'.ready
          /\ last_hash' = creds_hash(creds)
    /\ (signal_stream'.exists /\ ~signal_stream'.ready) =>
          /\ payload_task' # "alive"
          /\ copy_loop_task' = copy_loop_task \/ copy_loop_task' = "ready"
          /\ ~SupervisorRunning'

C34_RunningOnlyWhenReady == [][C34_Step]_vars

\* ---------------------------------------------------------------------
\* C35  The ping task marks the session degraded and calls
\*      notify_session_failure exactly in the step in which the failure
\*      counter reaches PING_FAIL_THRESHOLD, and that step leaves the
\*      counter at 0; a failure below the threshold adds one to the
\*      counter; a successful ping sets the counter to 0 and clears the
\*      degraded flag, and nothing else clears it.
\* ---------------------------------------------------------------------
PingNotifies == ping_loop'.pc = "notify" /\ ping_loop.pc # "notify"

C35_Step ==
    /\ PingNotifies <=> (_degraded' /\ _ping_failures + 1 = PING_FAIL_THRESHOLD
                           /\ _ping_failures' = 0
                           /\ Len(notify_calls') = Len(notify_calls) + 1
                           /\ ping_loop'.call = Len(notify_calls'))
    /\ (_degraded' /\ ~_degraded) => PingNotifies
    /\ _ping_failures' # _ping_failures =>
          \/ _ping_failures' = 0
          \/ _ping_failures' = _ping_failures + 1 /\ _ping_failures' < PING_FAIL_THRESHOLD
    /\ (ping_loop.pc = "retry" /\ ping_loop'.pc = "interval") =>
          _ping_failures' = 0 /\ ~_degraded'
    /\ (_degraded /\ ~_degraded') => _ping_failures' = 0 /\ ping_loop'.pc = "interval"
    /\ _ping_failures' < PING_FAIL_THRESHOLD

C35_DegradedAtThreshold == [][C35_Step]_vars

\* the third failure in a row was counted: the session is degraded, the
\* counter is back at 0 and the ping task is in notify_session_failure
C35_Witness ==
    /\ _degraded
    /\ _ping_failures = 0
    /\ ping_loop.pc = "notify"
    /\ notify_calls # <<>>

\* ---------------------------------------------------------------------
\* C36  When the REST call of an order (market, limit, trigger or close)
\*      comes back failed, the executor sets last_error and last_error_ts,
\*      appends one FAILED line, writes nothing to orders_vars and issues
\*      no REST call, and the task ends: no REST call is issued for a task
\*      that has ended.
\* ---------------------------------------------------------------------
FailedTexts == {"MARKET FAILED", "LIMIT FAILED", "TRIGGER FAILED", "CLOSE FAILED"}

OrderFailureHandled(t, res) ==
    LET y == AfterRest(ExecState, t, emitted[t], res)
    IN  /\ y.last_error = res.reason
        /\ y.last_error_ts # NoneNum
        /\ (last_error_ts # NoneNum => y.last_error_ts > last_error_ts)
        /\ Len(y.log_events) = Len(log_events) + 1
        /\ SubSeq(y.log_events, 1, Len(log_events)) = log_events
        /\ y.log_events[Len(y.log_events)].task = t
        /\ y.log_events[Len(y.log_events)].text \in FailedTexts
        /\ y.orders_vars = orders_vars
        /\ y.restLog = restLog
        /\ y.hpc[t] = "done"

C36_Step ==
    /\ \A t \in DOMAIN hpc :
          (hpc[t] = "rest" /\ emitted[t].event # "canceled") =>
             \A res \in RestResults : ~res.success => OrderFailureHandled(t, res)
    /\ \A t \in DOMAIN hpc :
          hpc[t] = "done" =>
             /\ hpc'[t] = "done"
             /\ \A i \in DOMAIN restLog' : restLog'[i].task = t => i \in DOMAIN restLog

C36_FailureNotRetried == [][C36_Step]_vars

\* a limit order, a trigger order and a close were all refused in one run
C36_Witness ==
    /\ {"LIMIT FAILED", "TRIGGER FAILED", "CLOSE FAILED"}
          \subseteq {log_events[i].text : i \in DOMAIN log_events}
    /\ last_error = "refused"
    /\ last_error_ts # NoneNum
    /\ Len(restLog) = 3
    /\ \A s \in Sides : orders_vars[s] = [limit |-> EmptyDict, trigger |-> EmptyDict]

\* ---------------------------------------------------------------------
\* C37  A transition of a follower PV to CLOSED_PENDING is reported at most
\*      once, whatever on_stable tasks run side by side: the mark is set
\*      only when a refresh finds an open position gone; the on_stable
\*      task that collects a PV finds the mark and takes it away in the
\*      same step, so no other task collects that transition; and a task
\*      returns at most one record for each PV it collected.
\* ---------------------------------------------------------------------
RecordsFor(results, x) ==
    {k \in DOMAIN results : results[k].cid = x[1] /\ results[k].pos_side = x[2]}

C37_Step ==
    /\ \A c \in Cids : \A s \in DOMAIN rt_pvs'[c] :
          (/\ PvState(rt_pvs'[c][s]) = "CLOSED_PENDING"
           /\ (s \notin DOMAIN rt_pvs[c] \/ PvState(rt_pvs[c][s]) # "CLOSED_PENDING"))
            => (/\ s \in DOMAIN rt_pvs[c]
                /\ rt_pvs[c][s].in_position
                /\ ~rt_pvs'[c][s].in_position)
    /\ \A i \in DOMAIN stable_tasks :
          (/\ Len(stable_tasks') = Len(stable_tasks)
           /\ stable_tasks[i].pc = "new"
           /\ stable_tasks'[i].pc = "fetch")
            => \A x \in stable_tasks'[i].items :
                  /\ x[1] \in stable_tasks[i].ids
                  /\ PvState(rt_pvs[x[1]][x[2]]) = "CLOSED_PENDING"
                  /\ PvState(rt_pvs'[x[1]][x[2]]) # "CLOSED_PENDING"
    /\ \A i \in DOMAIN stable_tasks :
          (stable_tasks[i].pc = "fetch" /\ stable_tasks' = RemoveAt(stable_tasks, i)) =>
             \A hits \in SUBSET Sides :
                LET results == ApplyItems(ItemsSeq(stable_tasks[i].items), hits,
                                          [pvs |-> rt_pvs, results |-> <<>>]).results
                IN  /\ \A x \in stable_tasks[i].items :
                          Cardinality(RecordsFor(results, x)) <= 1
                    /\ \A k \in DOMAIN results :
                          <<results[k].cid, results[k].pos_side>> \in stable_tasks[i].items

C37_ReportedAtMostOnce == [][C37_Step]_vars

\* the closed LONG position of follower 1 is with an on_stable task that
\* waits for the realized PnL, and a second on_stable task for follower 1
\* is about to run
C37_Witness ==
    \E i, j \in DOMAIN stable_tasks :
       /\ i # j
       /\ stable_tasks[i].pc = "fetch"
       /\ <<1, "LONG">> \in stable_tasks[i].items
       /\ stable_tasks[j].pc = "new"
       /\ 1 \in stable_tasks[j].ids

\* ---------------------------------------------------------------------
\* C38  orders_vars never forgets a live copy limit order: when the cancel
\*      of a recorded copy limit order has failed (its task logged CANCEL
\*      FAILED) and no later cancel found the record again, the master
\*      order id is still a key of orders_vars[side].limit.
\* ---------------------------------------------------------------------
CancelFailedAt(j) ==
    /\ ovLog[j].op = "cancel" /\ ovLog[j].had
    /\ emitted[ovLog[j].task].method = "limit"
    /\ \E k \in DOMAIN log_events :
          log_events[k].task = ovLog[j].task /\ log_events[k].text = "CANCEL FAILED"
    /\ \A j2 \in DOMAIN ovLog :
          (j2 > j /\ ovLog[j2].op = "cancel" /\ ovLog[j2].side = ovLog[j].side
             /\ ovLog[j2].oid = ovLog[j].oid) => ~ovLog[j2].had

C38_LiveOrderStaysRecorded ==
    \A j \in DOMAIN ovLog :
       CancelFailedAt(j) => ovLog[j].oid \in DOMAIN orders_vars[ovLog[j].side].limit

\* ---------------------------------------------------------------------
\* C39  When the supervisor has stopped a MasterSignalStream (stop() and
\*      the cancellation of its task), the stream has pushed no event since
\*      and, its task being over, the websocket and the HTTP session it
\*      opened are closed.
\* ---------------------------------------------------------------------
StreamTaskOver == start_pc \in {"cancelled", "returned", "failed"}

C39_StoppedStreamDisconnected ==
    (stream_hist.stopped /\ StreamTaskOver) =>
       /\ stream_hist.pushes = stream_hist.pushes_at_stop
       /\ net_res.sockets = 0
       /\ net_res.sessions = 0

\* the part of C39 about events: a stopped stream pushes nothing more
C39_StoppedStreamSilent ==
    stream_hist.stopped =>
       /\ StreamTaskOver
       /\ stream_hist.pushes = stream_hist.pushes_at_stop

\* ---------------------------------------------------------------------
\* C40  A push.personal.order frame is classified by (state, orderType):
\*      4 -> order_cancelled, 5 -> order_invalid, 3 with orderType 1 / 5 /
\*      other -> limit_filled / market_filled / trigger_filled, 2 with
\*      orderType 1 -> limit_placed, anything else pushes no event; a frame
\*      whose symbol is in BLACK_SYMBOLS pushes nothing, and a frame of a
\*      symbol that is not black-listed pushes exactly the one event of its
\*      class.
\* ---------------------------------------------------------------------
ClaimedType(state, orderType) ==
    CASE state = 4 -> "order_cancelled"
      [] state = 5 -> "order_invalid"
      [] state = 3 /\ orderType = 1 -> "limit_filled"
      [] state = 3 /\ orderType = 5 -> "market_filled"
      [] state = 3 /\ orderType \notin {1, 5} -> "trigger_filled"
      [] state = 2 /\ orderType = 1 -> "limit_placed"
      [] OTHER -> "none"

C40_OrderClassification ==
    order_frame # <<>> =>
       LET data == order_frame[1]
           ty == ClaimedType(data.state, data.orderType)
       IN  /\ data.symbol \in black_cfg => order_pushed = <<>>
           /\ ty = "none" => order_pushed = <<>>
           /\ Len(order_pushed) <= 1
           /\ order_pushed # <<>> =>
                 /\ order_pushed[1].event_type = ty
                 /\ order_pushed[1].raw = data
           /\ (ty # "none" /\ normalize_symbol(data.symbol) \notin black_symbols(black_cfg))
                 => Len(order_pushed) = 1

C40_Witness ==
    /\ black_cfg = {"eth_usdt"}
    /\ order_frame # <<>>
    /\ order_frame[1].state = 3 /\ order_frame[1].orderType = 5
    /\ order_frame[1].symbol = "BTCUSDT"
    /\ order_pushed # <<>>
    /\ order_pushed[1].event_type = "market_filled"
    /\ order_pushed[1].symbol = "BTC_USDT"

====
